---------------------------- MODULE Spec2Model ----------------------------
(***************************************************************************)
(* A model of panda.py: the argument-vector classifier (class Filter and   *)
(* its profiles), the alias resolver and database builder of               *)
(* CatchCompilationDatabase, and the target expansion of                   *)
(* PreprocessProject.                                                      *)
(*                                                                         *)
(* Python strings are modelled as sequences of one-character strings, so   *)
(* that prefix tests, regular expressions, os.path.join and                *)
(* os.path.basename are computed on the characters.  Python's None for a   *)
(* path is the empty sequence (the code tests paths by truthiness only),   *)
(* and None for an index is NoIndex.  Indexes stored in the model (oindex) *)
(* keep Python's 0-based value.                                            *)
(***************************************************************************)
EXTENDS Integers, Sequences, FiniteSets, TLC

VARIABLES
    argv,        \* parse run: the argument vector handed to MatchArguments
    pwd,         \* parse run: the working directory of the record
    result,      \* parse run: what MatchArguments returned (or that it raised)
    ppc,         \* parse run: "start" | "cc1" | "ar"
    records,     \* capture run: the execution records, in traversal order
    CD,          \* capture run: CompilationDatabase (list of CompilingCommands)
    LD,          \* capture run: LinkingDatabase (list of LinkingCommands)
    AD,          \* capture run: AliasDatabase as accumulated (ordered dict)
    heap,        \* capture run: the list objects the dicts and commands share
    SAD,         \* capture run: the dict SimplifyAlias returned
    SAD2,        \* capture run: the dict a second SimplifyAlias call returned
    CDJson,      \* capture run: the list ConstructCompilationDatabase emitted
    LDJson,      \* capture run: the list ConstructLinkingDatabase emitted
    bpc,         \* capture run: position in HandleCompileCommands
    berr,        \* capture run: the exception that ended the run, or "none"
    LDList,      \* target run: the persisted linking database (json.load)
    ldb,         \* target run: the dict ParseLDList returned
    dependency,  \* target run: the memo dict of PreprocessProject
    expanded,    \* target run: the targets whose body DeductOneTarget ran
    dpc,         \* target run: "start" | "parsed" | "deducted" | "raised"
    derr,        \* target run: the exception that ended the run, or "none"
    CDList,      \* job run: the persisted compilation database (json.load)
    artifact,    \* job run: the artifact option set in opts
    cdb,         \* job run: the dict ParseCDList returned
    jobList,     \* job run: the jobs MakePreprocessJob appended
    jpc,         \* job run: "start" | "parsed" | "made" | "raised"
    jerr,        \* job run: the exception that ended the run, or "none"
    tasks,       \* pool run: the jobList handed to the execution loop
    jobs,        \* pool run: opts.jobs
    taskqueue,   \* pool run: the chunks of jobList not yet taken
    wchunk,      \* pool run: per executor, what is left of its chunk
    wpc,         \* pool run: per executor, its position in RunCommand
    wstack,      \* pool run: per executor, the nested os.makedirs calls
    dirs,        \* pool run: the directories that exist below opts.output
    status,      \* pool run: per job "pending" | "running" | "launched" |
                 \*           "finished" | "raised"
    caught,      \* pool run: the jobs whose RunCommand caught FileExistsError
    xpc,         \* pool run: "start" | "running" | "done" | "raised"
    xerr,        \* pool run: the exception the loop ends with, or "none"
    opts,        \* start run: the parsed options ParseArguments finishes
    tools,       \* start run: the executables popen can launch
    outputDir,   \* start run: opts.output is "present", "absent" or "created"
    stderr,      \* start run: the diagnostics printed
    exitStatus,  \* start run: the status exit() was called with, or NoIndex
    spc          \* start run: position in the tail of ParseArguments

parseVars  == <<argv, pwd, result, ppc>>
buildVars  == <<records, CD, LD, AD, heap, SAD, SAD2, CDJson, LDJson, bpc, berr>>
deductVars == <<LDList, ldb, dependency, expanded, dpc, derr>>
jobVars    == <<CDList, artifact, cdb, jobList, jpc, jerr>>
poolVars   == <<tasks, jobs, taskqueue, wchunk, wpc, wstack, dirs, status,
                caught, xpc, xerr>>
startVars  == <<opts, tools, outputDir, stderr, exitStatus, spc>>
restVars   == <<jobVars, poolVars, startVars>>
vars       == <<parseVars, buildVars, deductVars, restVars>>

-----------------------------------------------------------------------------
(* Bounds of the model.                                                    *)

\* the longest argument list (tokens after the executable) of a parse run
MaxArgs == 3
\* the most execution records of one capture
MaxRecords == 3
\* the most link targets of a persisted linking database
MaxTargets == 3

-----------------------------------------------------------------------------
(* Characters and strings.                                                 *)

Digits == {"0", "1", "2", "3", "4", "5", "6", "7", "8", "9"}
Lower  == {"a", "b", "c", "d", "e", "f", "g", "h", "i", "j", "k", "l", "m",
           "n", "o", "p", "q", "r", "s", "t", "u", "v", "w", "x", "y", "z"}
Upper  == {"A", "B", "C", "D", "E", "F", "G", "H", "I", "J", "K", "L", "M",
           "N", "O", "P", "Q", "R", "S", "T", "U", "V", "W", "X", "Y", "Z"}
\* \w of the re module (ASCII part)
WordChars == Lower \cup Upper \cup Digits \cup {"_"}

NoPath  == << >>
NoIndex == -1

Tail2(s, k) == SubSeq(s, k + 1, Len(s))          \* s[k:]
Head2(s, k) == SubSeq(s, 1, k)                   \* s[:k]

StartsWith(s, p) == Len(s) >= Len(p) /\ Head2(s, Len(p)) = p
EndsWith(s, p)   == Len(s) >= Len(p) /\ Tail2(s, Len(s) - Len(p)) = p
AllIn(s, C)      == \A i \in 1..Len(s) : s[i] \in C

\* x in l, for a list l
InList(x, l) == \E i \in 1..Len(l) : l[i] = x
\* l.index(x), 0-based; the caller guarantees InList(x, l)
IndexOf(x, l) == (CHOOSE i \in 1..Len(l) : l[i] = x /\ \A j \in 1..(i - 1) : l[j] # x) - 1
\* l with its first occurrence of x removed (list.remove)
RemoveFirst(x, l) ==
    LET i == IndexOf(x, l) + 1 IN Head2(l, i - 1) \o Tail2(l, i)
\* l.insert(k, x), k 0-based
InsertAt(l, k, x) == Head2(l, k) \o <<x>> \o Tail2(l, k)
\* a in b, for two strings (substring test)
SubString(a, b) ==
    \E i \in 0..(Len(b) - Len(a)) : SubSeq(b, i + 1, i + Len(a)) = a

Slash == "/"
TmpPrefix == <<"/", "t", "m", "p", "/">>

\* os.path.join(a, b) on POSIX
PathJoin(a, b) ==
    IF StartsWith(b, <<Slash>>) THEN b
    ELSE IF a = << >> \/ a[Len(a)] = Slash THEN a \o b
    ELSE a \o <<Slash>> \o b

\* os.path.basename(p): what follows the last slash
RECURSIVE BaseName(_)
BaseName(p) ==
    IF \E i \in 1..Len(p) : p[i] = Slash
    THEN BaseName(Tail2(p, CHOOSE i \in 1..Len(p) : p[i] = Slash))
    ELSE p

\* str.startswith('/tmp/')
InTmp(p) == StartsWith(p, TmpPrefix)

-----------------------------------------------------------------------------
(* The regular expressions of Default and of the filter classes.           *)

\* (-[\d.]+)?$ : an optional version suffix
VersionSuffix(s) ==
    \/ s = << >>
    \/ Len(s) >= 2 /\ s[1] = "-" /\ AllIn(Tail2(s, 1), Digits \cup {"."})

\* [\w-]*<tail>
WordsThen(s, tail) ==
    EndsWith(s, tail) /\ AllIn(Head2(s, Len(s) - Len(tail)), WordChars \cup {"-"})

\* ^[^-].*\.(e1|e2|...)$ : the shape of every file filter of Default
ExtFilter(s, exts) ==
    /\ Len(s) >= 1
    /\ s[1] # "-"
    /\ \E e \in exts : Len(s) >= Len(e) + 2 /\ EndsWith(s, <<".">> \o e)

SourceExts == {<<"c">>, <<"C">>, <<"c", "c">>, <<"C", "C">>, <<"c", "x", "x">>,
               <<"c", "p", "p">>, <<"c", "+", "+">>, <<"i">>, <<"i", "i">>,
               <<"i", "x", "x">>, <<"i", "p", "p">>, <<"i", "+", "+">>}
AsmExts    == {<<"s">>, <<"S">>, <<"s", "x">>, <<"a", "s", "m">>}
ObjectExts == {<<"o">>, <<"o", "b", "j">>}
ArchiveExts == {<<"a">>, <<"l", "i", "b">>}

sourcefilter(s)  == ExtFilter(s, SourceExts)
asmfilter(s)     == ExtFilter(s, AsmExts)
objectfilter(s)  == ExtFilter(s, ObjectExts)
archivefilter(s) == ExtFilter(s, ArchiveExts)
\* ^[^-].*\.(so([\d.]+)?|dll)$
sharedfilter(s) ==
    \/ ExtFilter(s, {<<"s", "o">>, <<"d", "l", "l">>})
    \/ /\ Len(s) >= 1
       /\ s[1] # "-"
       /\ \E k \in 2..(Len(s) - 3) :
            /\ SubSeq(s, k, k + 2) = <<".", "s", "o">>
            /\ k + 3 <= Len(s)
            /\ AllIn(Tail2(s, k + 2), Digits \cup {"."})
linksourcefilter(s) == objectfilter(s) \/ sharedfilter(s) \/ archivefilter(s)

S_clang == <<"c", "l", "a", "n", "g">>

\* CC1Filter.cc1filter[0], used with fullmatch
cc1filter(s) ==
    \E k \in 0..Len(s) :
        /\ VersionSuffix(Tail2(s, k))
        /\ LET stem == Head2(s, k) IN
           \/ WordsThen(stem, <<"c", "c">>)
           \/ WordsThen(stem, <<"g", "+", "+">>)
           \/ WordsThen(stem, <<"c", "+", "+">>)
           \/ stem = S_clang
           \/ stem = S_clang \o <<"+", "+">>
\* ARFilter.arfilter[0]
arfilter(s) ==
    \E k \in 0..Len(s) :
        VersionSuffix(Tail2(s, k)) /\ WordsThen(Head2(s, k), <<"a", "r">>)
\* LDFilter.ldfilter[0]
ldfilter(s) ==
    \E k \in 0..Len(s) :
        VersionSuffix(Tail2(s, k)) /\ WordsThen(Head2(s, k), <<"l", "d">>)
\* AliasFilter.clangfilter.exe
aliasclangexe(s) ==
    \E k \in 0..Len(s) : VersionSuffix(Tail2(s, k)) /\ Head2(s, k) = S_clang
\* AliasFilter.cc1filter.exe
aliascc1exe(s) ==
    \E k \in 0..Len(s) :
        /\ VersionSuffix(Tail2(s, k))
        /\ \/ WordsThen(Head2(s, k), <<"c", "c", "1">>)
           \/ WordsThen(Head2(s, k), <<"c", "c", "1", "p", "l", "u", "s">>)
\* AliasFilter.asfilter.exe
aliasasexe(s) ==
    \E k \in 0..Len(s) :
        VersionSuffix(Tail2(s, k)) /\ WordsThen(Head2(s, k), <<"a", "s">>)

\* CC1JsonFilter.cc1filter[0]
cc1jsoncc(s) ==
    \E k \in 0..Len(s) :
        /\ VersionSuffix(Tail2(s, k))
        /\ \/ WordsThen(Head2(s, k), <<"c", "c">>)
           \/ Head2(s, k) = S_clang
\* CC1JsonFilter.cc1filter[1]
cc1jsoncxx(s) ==
    \E k \in 0..Len(s) :
        /\ VersionSuffix(Tail2(s, k))
        /\ \/ WordsThen(Head2(s, k), <<"g", "+", "+">>)
           \/ WordsThen(Head2(s, k), <<"c", "+", "+">>)
           \/ Head2(s, k) = S_clang \o <<"+", "+">>

ExecMatches(name, s) ==
    CASE name = "cc1filter" -> cc1filter(s)
      [] name = "arfilter"  -> arfilter(s)
      [] name = "ldfilter"  -> ldfilter(s)
      [] name = "cc1jsoncc" -> cc1jsoncc(s)
      [] name = "cc1jsoncxx" -> cc1jsoncxx(s)

(* The matchers of the ParameterType entries.  ReMatch is matcher.match(arg): *)
(* the length of match.group(0), or -1 when there is no match.               *)

\* ^-(v|Werror(=.+)?|Wall|Wextra|M[DGMPQ]*|)$
WarnBody(b) ==
    \/ b = << >>
    \/ b = <<"v">>
    \/ b = <<"W", "a", "l", "l">>
    \/ b = <<"W", "e", "x", "t", "r", "a">>
    \/ b = <<"W", "e", "r", "r", "o", "r">>
    \/ /\ StartsWith(b, <<"W", "e", "r", "r", "o", "r", "=">>)
       /\ Len(b) >= 8
    \/ /\ StartsWith(b, <<"M">>)
       /\ AllIn(Tail2(b, 1), {"D", "G", "M", "P", "Q"})

\* ^-(w|g|O([0123sg]|fast)?)$
OptBody(b) ==
    \/ b \in {<<"w">>, <<"g">>, <<"O">>, <<"O", "f", "a", "s", "t">>}
    \/ Len(b) = 2 /\ b[1] = "O" /\ b[2] \in {"0", "1", "2", "3", "s", "g"}

ReMatch(matcher, s) ==
    CASE matcher = "^-[lL]" ->
            IF Len(s) >= 2 /\ s[1] = "-" /\ s[2] \in {"l", "L"} THEN 2 ELSE -1
      [] matcher = "^-M[TF]$" ->
            IF s \in {<<"-", "M", "T">>, <<"-", "M", "F">>} THEN 3 ELSE -1
      [] matcher = "^-(Wl,|shared|static)" ->
            IF StartsWith(s, <<"-", "W", "l", ",">>) THEN 4
            ELSE IF StartsWith(s, <<"-", "s", "h", "a", "r", "e", "d">>) THEN 7
            ELSE IF StartsWith(s, <<"-", "s", "t", "a", "t", "i", "c">>) THEN 7
            ELSE -1
      [] matcher = "^-(v|Werror(=.+)?|Wall|Wextra|M[DGMPQ]*|)$" ->
            IF Len(s) >= 1 /\ s[1] = "-" /\ WarnBody(Tail2(s, 1)) THEN Len(s) ELSE -1
      [] matcher = "^-o" ->
            IF StartsWith(s, <<"-", "o">>) THEN 2 ELSE -1
      [] matcher = "^-(w|g|O([0123sg]|fast)?)$" ->
            IF Len(s) >= 1 /\ s[1] = "-" /\ OptBody(Tail2(s, 1)) THEN Len(s) ELSE -1


SourceMatches(name, s) ==
    CASE name = "sourcefilter"     -> sourcefilter(s)
      [] name = "objectfilter"     -> objectfilter(s)
      [] name = "linksourcefilter" -> linksourcefilter(s)

-----------------------------------------------------------------------------
(* The environment: the files os.path.exists finds.                        *)

P_dir    == <<"/", "p">>
Tmp_dir  == <<"/", "t", "m", "p">>
ExistingFiles ==
    { <<"/", "p", "/", "a", ".", "c">>,  <<"/", "p", "/", "b", ".", "c">>,
      <<"/", "p", "/", "a", ".", "o">>,  <<"/", "p", "/", "b", ".", "o">>,
      <<"/", "p", "/", "e", ".", "o">>,  <<"/", "p", "/", "l", ".", "a">>,
      <<"/", "t", "m", "p", "/", "a", ".", "c">> }
PathExists(p) == p \in ExistingFiles

-----------------------------------------------------------------------------
(* class Filter.                                                           *)

ParameterType(m, c) == [matcher |-> m, count |-> c]

T_E   == <<"-", "E">>
T_c   == <<"-", "c">>
T_o   == <<"-", "o">>
T_cc1 == <<"-", "c", "c", "1">>

cc1abort ==
    { T_E, T_cc1, <<"-", "c", "c", "1", "a", "s">>, <<"-", "M">>,
      <<"-", "M", "M">>, <<"-", "#", "#", "#">>,
      <<"-", "f", "s", "y", "n", "t", "a", "x", "-", "o", "n", "l", "y">> }
cc1remove ==
    << ParameterType("^-[lL]", 1),
       ParameterType("^-M[TF]$", 1),
       ParameterType("^-(Wl,|shared|static)", 0),
       ParameterType("^-(v|Werror(=.+)?|Wall|Wextra|M[DGMPQ]*|)$", 0) >>
cc1output == ParameterType("^-o", 1)

\* the FilterType each class hands to Filter.__init__; None is the empty
\* collection (the code tests abort and remove by truthiness)
CC1Filter ==
    [cls |-> "CC1Filter", execfilter |-> <<"cc1filter">>, abort |-> cc1abort,
     remove |-> cc1remove, output |-> cc1output, source |-> "sourcefilter"]
ARFilter ==
    [cls |-> "ARFilter", execfilter |-> <<"arfilter">>, abort |-> {},
     remove |-> << >>, output |-> ParameterType("archivefilter", 0),
     source |-> "objectfilter"]
LDFilter ==
    [cls |-> "LDFilter", execfilter |-> <<"ldfilter">>, abort |-> {},
     remove |-> << >>, output |-> ParameterType("^-o", 1),
     source |-> "linksourcefilter"]

\* MatchParameter with "count -= 1" left out for a glued parameter
MatchParameter_NoDecrement(matcher, count, arg, rest) ==
    LET e == ReMatch(matcher, arg) IN
    IF e < 0 THEN [kind |-> "none", ret |-> << >>, used |-> 0]
    ELSE LET glued == e # Len(arg)
             head  == IF glued THEN <<Head2(arg, e), Tail2(arg, e)>>
                      ELSE <<Head2(arg, e)>>
         IN IF count > Len(rest)
            THEN [kind |-> "raise", ret |-> << >>, used |-> Len(rest)]
            ELSE [kind |-> "list", ret |-> head \o Head2(rest, count),
                  used |-> count]

\* MatchParameter with the glued parameter put in front of the flag
MatchParameter_GluedFirst(matcher, count, arg, rest) ==
    LET e == ReMatch(matcher, arg) IN
    IF e < 0 THEN [kind |-> "none", ret |-> << >>, used |-> 0]
    ELSE LET glued == e # Len(arg)
             head  == IF glued THEN <<Tail2(arg, e), Head2(arg, e)>>
                      ELSE <<Head2(arg, e)>>
             cnt   == IF glued THEN count - 1 ELSE count
             pull  == IF cnt > 0 THEN cnt ELSE 0
         IN IF pull > Len(rest)
            THEN [kind |-> "raise", ret |-> << >>, used |-> Len(rest)]
            ELSE [kind |-> "list", ret |-> head \o Head2(rest, pull),
                  used |-> pull]

(* Filter.MatchParameter(matcher, count, arg, i).  rest is what the iterator *)
(* i still holds.  kind is "none" (return None), "list" (ret, with used      *)
(* tokens pulled from i) or "raise" (next(i) raised StopIteration).          *)
MatchParameter(matcher, count, arg, rest) ==
    LET e == ReMatch(matcher, arg) IN
    IF e < 0 THEN [kind |-> "none", ret |-> << >>, used |-> 0]
    ELSE LET glued == e # Len(arg)
             head  == IF glued THEN <<Head2(arg, e), Tail2(arg, e)>>
                      ELSE <<Head2(arg, e)>>
             cnt   == IF glued THEN count - 1 ELSE count
             pull  == IF cnt > 0 THEN cnt ELSE 0
         IN IF pull > Len(rest)
            THEN [kind |-> "raise", ret |-> << >>, used |-> Len(rest)]
            ELSE [kind |-> "list", ret |-> head \o Head2(rest, pull),
                  used |-> pull]

\* Filter.MatchExecFilterIndex: the 0-based index, or NoIndex for None
MatchExecFilterIndex(filters, exe) ==
    LET b == BaseName(exe)
        hits == {efi \in 1..Len(filters.execfilter) :
                    ExecMatches(filters.execfilter[efi], b)}
    IN IF hits = {} THEN NoIndex
       ELSE (CHOOSE efi \in hits : \A o \in hits : efi <= o) - 1

\* Filter.MatchExec: exe, or NoPath for None
MatchExec(filters, exe) ==
    IF MatchExecFilterIndex(filters, exe) # NoIndex THEN exe ELSE NoPath

\* MatchAbort that misses the preprocess-only flag
MatchAbort_WithoutE(filters, arg) == arg \in (filters.abort \ {T_E})

MatchAbort(filters, arg) == arg \in filters.abort

\* Filter.MatchRemove: the loop over filters.remove from its k-th entry on
RECURSIVE MatchRemoveFrom(_, _, _, _)
MatchRemoveFrom(remove, k, arg, rest) ==
    IF k > Len(remove) THEN [kind |-> "none", ret |-> << >>, used |-> 0]
    ELSE LET m == MatchParameter(remove[k].matcher, remove[k].count, arg, rest)
         IN IF m.kind = "none" THEN MatchRemoveFrom(remove, k + 1, arg, rest)
            ELSE m
MatchRemove(filters, arg, rest) == MatchRemoveFrom(filters.remove, 1, arg, rest)

\* Filter.MatchOutput, and its override ARFilter.MatchOutput
MatchOutput(filters, arg, rest) ==
    IF filters.cls = "ARFilter"
    THEN IF archivefilter(arg)
         THEN [kind |-> "list", ret |-> <<arg>>, used |-> 0]
         ELSE [kind |-> "none", ret |-> << >>, used |-> 0]
    ELSE MatchParameter(filters.output.matcher, filters.output.count, arg, rest)

\* Filter.MatchSource: the joined path, or NoPath for None
MatchSource(filters, arg, dir) ==
    LET p == PathJoin(dir, arg) IN
    IF SourceMatches(filters.source, BaseName(p)) /\ (PathExists(p) \/ InTmp(p))
    THEN p ELSE NoPath

(* Filter.ParseExecutionCommands.  The returned record is kind "None",       *)
(* "raise" (StopIteration left the function) or "tuple" with the six         *)
(* elements of the tuple.  origin is bookkeeping of the model, not of the    *)
(* code: origin[j] is the position in arguments (1 is the executable) of the *)
(* token that self.arguments[j] was made from.                               *)
ParseNone ==
    [kind |-> "None", exe |-> NoPath, pwd |-> NoPath, files |-> << >>,
     arguments |-> << >>, output |-> NoPath, oindex |-> NoIndex,
     origin |-> << >>]
ParseRaise == [ParseNone EXCEPT !.kind = "raise"]

\* the loop "for arg in args" from cursor position i (the next token to read)
RECURSIVE ScanArguments(_, _, _, _, _)
ScanArguments(filters, arguments, dir, i, st) ==
    IF i > Len(arguments)
    THEN [st EXCEPT !.oindex = IF st.output # NoPath
                               THEN IndexOf(st.output, st.arguments)
                               ELSE NoIndex]
    ELSE
    LET arg  == arguments[i]
        rest == Tail2(arguments, i)
        rm   == IF filters.remove # << >> THEN MatchRemove(filters, arg, rest)
                ELSE [kind |-> "none", ret |-> << >>, used |-> 0]
        out  == MatchOutput(filters, arg, rest)
        src  == MatchSource(filters, arg, dir)
    IN
    IF filters.abort # {} /\ MatchAbort(filters, arg) THEN ParseNone
    ELSE IF rm.kind = "raise" THEN ParseRaise
    ELSE IF rm.kind = "list"
         THEN ScanArguments(filters, arguments, dir, i + 1 + rm.used, st)
    ELSE IF out.kind = "raise" THEN ParseRaise
    ELSE IF out.kind = "list"
         THEN LET target == out.ret
                  o      == PathJoin(dir, target[Len(target)])
                  flags  == IF Len(target) # 1
                            THEN Head2(target, Len(target) - 1) ELSE << >>
              IN ScanArguments(filters, arguments, dir, i + 1 + out.used,
                    [st EXCEPT
                       !.output = o,
                       !.arguments = @ \o flags \o <<o>>,
                       !.origin = @ \o [k \in 1..Len(flags) |-> i]
                                    \o <<i + out.used>>])
    ELSE IF src # NoPath
         THEN ScanArguments(filters, arguments, dir, i + 1,
                    [st EXCEPT !.files = Append(@, src),
                               !.arguments = Append(@, src),
                               !.origin = Append(@, i)])
    ELSE ScanArguments(filters, arguments, dir, i + 1,
                    [st EXCEPT !.arguments = Append(@, arg),
                               !.origin = Append(@, i)])

ParseExecutionCommandsWith(filters, exe, arguments, dir) ==
    IF exe = NoPath THEN ParseNone
    ELSE ScanArguments(filters, arguments, dir, 2,
            [ParseNone EXCEPT !.kind = "tuple", !.exe = exe, !.pwd = dir])

ParseExecutionCommands(filters, arguments, dir) ==
    IF arguments = << >> THEN ParseRaise      \* next(args) on an empty iterator
    ELSE ParseExecutionCommandsWith(filters, MatchExec(filters, arguments[1]),
                                    arguments, dir)

(* The MatchArguments of the three capture profiles.  compilation / archive *)
(* is the seventh field of the namedtuple.                                  *)
CC1Filter_MatchArguments(arguments, dir) ==
    LET r == ParseExecutionCommands(CC1Filter, arguments, dir) IN
    [cmd |-> r, compilation |-> r.kind = "tuple" /\ InList(T_c, r.arguments)]
ARFilter_MatchArguments(arguments, dir) ==
    [cmd |-> ParseExecutionCommands(ARFilter, arguments, dir), archive |-> TRUE]
LDFilter_MatchArguments(arguments, dir) ==
    [cmd |-> ParseExecutionCommands(LDFilter, arguments, dir), archive |-> FALSE]


-----------------------------------------------------------------------------
(* Each run leaves the variables of the other runs at rest.                *)

ParseIdle ==
    /\ argv = << >>
    /\ pwd = NoPath
    /\ result = [cmd |-> ParseNone]
    /\ ppc = "idle"
BuildIdle ==
    /\ records = << >>
    /\ CD = << >>
    /\ LD = << >>
    /\ AD = << >>
    /\ heap = << >>
    /\ SAD = << >>
    /\ SAD2 = << >>
    /\ CDJson = << >>
    /\ LDJson = << >>
    /\ bpc = "idle"
    /\ berr = "none"
DeductIdle ==
    /\ LDList = << >>
    /\ ldb = << >>
    /\ dependency = << >>
    /\ expanded = << >>
    /\ dpc = "idle"
    /\ derr = "none"
JobIdle ==
    /\ CDList = << >>
    /\ artifact = "none"
    /\ cdb = << >>
    /\ jobList = << >>
    /\ jpc = "idle"
    /\ jerr = "none"
PoolIdle ==
    /\ tasks = << >>
    /\ jobs = 1
    /\ taskqueue = << >>
    /\ wchunk = << >>
    /\ wpc = << >>
    /\ wstack = << >>
    /\ dirs = {}
    /\ status = << >>
    /\ caught = {}
    /\ xpc = "idle"
    /\ xerr = "none"
StartIdle ==
    /\ opts = {}
    /\ tools = {}
    /\ outputDir = "present"
    /\ stderr = << >>
    /\ exitStatus = NoIndex
    /\ spc = "idle"
RestIdle == JobIdle /\ PoolIdle /\ StartIdle

-----------------------------------------------------------------------------
(* class AliasFilter.                                                      *)

T_mainfile == <<"-", "m", "a", "i", "n", "-", "f", "i", "l", "e", "-",
                "n", "a", "m", "e">>
T_dumpbase == <<"-", "d", "u", "m", "p", "b", "a", "s", "e">>

\* argfilter.input.match(i): the length of group(0), or -1
AliasInputMatch(argfilter, s) ==
    CASE argfilter = "clangfilter" -> IF s = T_mainfile THEN Len(s) ELSE -1
      [] argfilter = "cc1filter"   -> IF s = T_dumpbase THEN Len(s) ELSE -1
      [] argfilter = "asfilter"    -> IF asmfilter(s) THEN Len(s) ELSE -1

\* the loop "for i in args" of AliasFilter.MatchArguments from cursor i;
\* a flag whose group(0) starts with "-" takes the next token
RECURSIVE AliasScan(_, _, _, _, _)
AliasScan(argfilter, arguments, i, ifile, ofile) ==
    IF i > Len(arguments)
    THEN [kind |-> "ok", ifile |-> ifile, ofile |-> ofile]
    ELSE
    LET tok == arguments[i]
        im  == AliasInputMatch(argfilter, tok)
        om  == ReMatch("^-o", tok)
    IN
    IF im >= 0
    THEN IF tok[1] = "-"
         THEN IF i + 1 > Len(arguments)
              THEN [kind |-> "raise", ifile |-> ifile, ofile |-> ofile]
              ELSE AliasScan(argfilter, arguments, i + 2, arguments[i + 1], ofile)
         ELSE AliasScan(argfilter, arguments, i + 1, Head2(tok, im), ofile)
    ELSE IF om >= 0
    THEN IF i + 1 > Len(arguments)
         THEN [kind |-> "raise", ifile |-> ifile, ofile |-> ofile]
         ELSE AliasScan(argfilter, arguments, i + 2, ifile, arguments[i + 1])
    ELSE AliasScan(argfilter, arguments, i + 1, ifile, ofile)

(* AliasFilter.MatchArguments: kind "None", "raise" (StopIteration) or      *)
(* "edge", the one-entry dict {key: [dest]}.                                *)
AliasNone  == [kind |-> "None", key |-> NoPath, dest |-> NoPath]
AliasRaise == [kind |-> "raise", key |-> NoPath, dest |-> NoPath]
AliasFilter_MatchArguments(arguments, dir) ==
    IF arguments = << >> THEN AliasRaise
    ELSE
    LET exename == BaseName(arguments[1])
        isclang == aliasclangexe(exename)
    IN
    IF isclang /\ Len(arguments) < 2 THEN AliasRaise   \* '-cc1' == next(args)
    ELSE
    LET argfilter ==
            IF isclang /\ arguments[2] = T_cc1 THEN "clangfilter"
            ELSE IF aliascc1exe(exename) THEN "cc1filter"
            ELSE IF aliasasexe(exename) THEN "asfilter"
            ELSE "none"
        \* the -cc1 test consumed one token whenever the executable is clang
        first == IF isclang THEN 3 ELSE 2
    IN
    IF argfilter = "none" THEN AliasNone
    ELSE LET sc == AliasScan(argfilter, arguments, first, NoPath, NoPath) IN
         IF sc.kind = "raise" THEN AliasRaise
         ELSE IF sc.ifile # NoPath /\ sc.ofile # NoPath
              THEN [kind |-> "edge", key |-> PathJoin(dir, sc.ifile),
                    dest |-> PathJoin(dir, sc.ofile)]
              ELSE AliasNone

-----------------------------------------------------------------------------
(* Python dicts and list objects.  A dict is the sequence of its items in  *)
(* insertion order.  A dict value is a string or a list; a list is named   *)
(* by its cell in heap, so that two names of one list object (            *)
(* AliasDatabase[ld.output] and ld.files, ret[src] and AD[src]) see each   *)
(* other's pop, += and item assignment.                                    *)

DictHas(d, k) == \E i \in 1..Len(d) : d[i].k = k
DictGet(d, k) == d[CHOOSE i \in 1..Len(d) : d[i].k = k].v
DictSet(d, k, v) ==
    IF DictHas(d, k)
    THEN [i \in 1..Len(d) |-> IF d[i].k = k THEN [k |-> k, v |-> v] ELSE d[i]]
    ELSE Append(d, [k |-> k, v |-> v])
DictKeys(d) == { d[i].k : i \in 1..Len(d) }

StrVal(s)   == [t |-> "str", s |-> s, id |-> 0]
ListVal(id) == [t |-> "list", s |-> NoPath, id |-> id]

-----------------------------------------------------------------------------
(* CatchCompilationDatabase.HandleCompileCommands: the classification loop. *)

Command(r, role) ==
    [exe |-> r.exe, directory |-> r.pwd, files |-> r.files,
     arguments |-> r.arguments, output |-> r.output, oindex |-> r.oindex,
     role |-> role]

\* a LinkingCommands is appended to LinkingDatabase, its files (one list
\* object, heap cell Len(heap) + 1) stored under its output in AliasDatabase
Link(st, m) ==
    [st EXCEPT
       !.heap = Append(@, m.cmd.files),
       !.LD = Append(@, [Command(m.cmd, m.archive)
                            EXCEPT !.files = Len(st.heap) + 1]),
       !.AD = DictSet(@, m.cmd.output, ListVal(Len(st.heap) + 1))]

\* "AliasDatabase[k] += al[k]" or "AliasDatabase[k] = al[k]"
AddEdge(st, al) ==
    IF DictHas(st.AD, al.key)
    THEN [st EXCEPT !.heap[DictGet(st.AD, al.key).id] = Append(@, al.dest)]
    ELSE [st EXCEPT !.heap = Append(@, <<al.dest>>),
                    !.AD = DictSet(@, al.key, ListVal(Len(st.heap) + 1))]

\* the cascade of the loop body over the four classifications of a record;
\* st holds CompilationDatabase, LinkingDatabase, AliasDatabase and the heap
Classify(st, cd, ar, ld, al) ==
    IF cd.cmd.kind = "raise" THEN [st EXCEPT !.err = "StopIteration"]
    ELSE IF cd.cmd.kind = "tuple" /\ cd.cmd.files # << >>
         THEN [st EXCEPT !.CD = Append(@, Command(cd.cmd, cd.compilation))]
    ELSE IF ar.cmd.kind = "raise" THEN [st EXCEPT !.err = "StopIteration"]
    ELSE IF ar.cmd.kind = "tuple" /\ ar.cmd.files # << >> THEN Link(st, ar)
    ELSE IF ld.cmd.kind = "raise" THEN [st EXCEPT !.err = "StopIteration"]
    ELSE IF ld.cmd.kind = "tuple" /\ ld.cmd.files # << >> THEN Link(st, ld)
    ELSE IF al.kind = "raise" THEN [st EXCEPT !.err = "StopIteration"]
    ELSE IF al.kind = "edge" THEN AddEdge(st, al)
    ELSE st

\* the body of "for i in TraverseCommands(outputdir)" for one record
HandleOneRecord(st, rec) ==
    Classify(st,
             CC1Filter_MatchArguments(rec.arguments, rec.pwd),
             ARFilter_MatchArguments(rec.arguments, rec.pwd),
             LDFilter_MatchArguments(rec.arguments, rec.pwd),
             AliasFilter_MatchArguments(rec.arguments, rec.pwd))

RECURSIVE TraverseCommands(_, _, _)
TraverseCommands(st, recs, i) ==
    IF i > Len(recs) \/ st.err # "none" THEN st
    ELSE TraverseCommands(HandleOneRecord(st, recs[i]), recs, i + 1)

-----------------------------------------------------------------------------
(* CatchCompilationDatabase.SimplifyAlias.                                  *)

Dot == <<".">>

\* the body of "for value in AD[src]", from index i of the list being walked
\* (cell walk, read again at every step as Python's list iterator does)
RECURSIVE SimplifyValues(_, _, _, _, _)
SimplifyValues(ad, src, walk, i, st) ==
    IF st.err # "none" \/ i > Len(st.heap[walk]) THEN st
    ELSE
    LET value0 == st.heap[walk][i]
        hop    == ~objectfilter(value0)
        missing == hop /\ ~DictHas(ad, value0)
        cellv  == DictGet(ad, value0).id
        empty  == hop /\ ~missing /\ st.heap[cellv] = << >>
        \* value = AD[value].pop()
        value1 == IF hop THEN st.heap[cellv][Len(st.heap[cellv])] ELSE value0
        heap1  == IF hop
                  THEN [st.heap EXCEPT ![cellv] = Head2(@, Len(@) - 1)]
                  ELSE st.heap
        value2 == IF InTmp(value1) THEN src \o Dot \o BaseName(value1)
                  ELSE value1
        ret1   == DictSet(st.ret, value1, StrVal(value2))
        target == DictGet(ret1, src)
    IN
    IF missing THEN [st EXCEPT !.err = "KeyError"]
    ELSE IF empty THEN [st EXCEPT !.err = "IndexError"]
    ELSE IF target.t # "list"
         \* ret[src] was overwritten by ret[value]: str has no append
         THEN [st EXCEPT !.err = "AttributeError", !.heap = heap1, !.ret = ret1]
    ELSE SimplifyValues(ad, src, walk, i + 1,
            [st EXCEPT !.ret = ret1,
                       !.heap = [heap1 EXCEPT ![target.id] = Append(@, value2)]])

\* the loop "for src in AD" from the k-th key on
RECURSIVE SimplifyFrom(_, _, _)
SimplifyFrom(ad, k, st) ==
    IF st.err # "none" \/ k > Len(ad) THEN st
    ELSE
    LET src == ad[k].k
        cell == Len(st.heap) + 1
    IN
    IF sourcefilter(src)
    THEN SimplifyFrom(ad, k + 1,
            SimplifyValues(ad, src, ad[k].v.id, 1,
                [st EXCEPT !.ret = DictSet(@, src, ListVal(cell)),
                           !.heap = Append(@, << >>)]))
    ELSE IF ~asmfilter(src)
    THEN SimplifyFrom(ad, k + 1, [st EXCEPT !.ret = DictSet(@, src, ad[k].v)])
    ELSE SimplifyFrom(ad, k + 1, st)

\* SimplifyAlias(AD): the returned dict, the heap as the call leaves it (the
\* lists of AD are popped in place) and the exception, if one was raised
SimplifyAlias(ad, hp) ==
    SimplifyFrom(ad, 1, [ret |-> << >>, heap |-> hp, err |-> "none"])

-----------------------------------------------------------------------------
(* CatchCompilationDatabase.ConstructCompilationDatabase.                   *)

(* What json.dump writes for a value: a string, or a list of strings as it *)
(* stands when the database is dumped.                                     *)
StrOut(s)   == [t |-> "str", s |-> s, l |-> << >>]
ListOut(l)  == [t |-> "list", s |-> NoPath, l |-> l]
Snapshot(v, hp) == IF v.t = "str" THEN StrOut(v.s) ELSE ListOut(hp[v.id])
StrOuts(l)  == [i \in 1..Len(l) |-> StrOut(l[i])]

\* CC1Filter.reformatInputFile: the loop "for rm in files" from index i;
\* err is "ValueError" when index() or remove() does not find its operand
RECURSIVE reformatFrom(_, _, _, _, _)
reformatFrom(ifile, st, files, compilation, i) ==
    IF st.err # "none" \/ i > Len(files) THEN st
    ELSE
    LET rm == files[i] IN
    IF rm = ifile
    THEN IF ~compilation
         THEN IF ~InList(StrOut(ifile), st.arguments)
              THEN [st EXCEPT !.err = "ValueError"]
              ELSE reformatFrom(ifile,
                     [st EXCEPT !.arguments =
                         InsertAt(@, IndexOf(StrOut(ifile), @), StrOut(T_c))],
                     files, compilation, i + 1)
         ELSE reformatFrom(ifile, st, files, compilation, i + 1)
    ELSE IF ~InList(StrOut(rm), st.arguments)
         THEN [st EXCEPT !.err = "ValueError"]
         ELSE reformatFrom(ifile,
                [st EXCEPT !.arguments = RemoveFirst(StrOut(rm), @)],
                files, compilation, i + 1)

\* the argument list is left as it was
reformatInputFile_Untouched(ifile, arguments, files, compilation) ==
    [arguments |-> arguments, err |-> "none"]

reformatInputFile(ifile, arguments, files, compilation) ==
    reformatFrom(ifile, [arguments |-> arguments, err |-> "none"], files,
                 compilation, 1)

\* AD[out] in AD[ifile]: "yes", "no" or "TypeError"
ValueIn(x, y, hp) ==
    IF y.t = "list"
    THEN IF x.t = "str" /\ InList(x.s, hp[y.id]) THEN "yes" ELSE "no"
    ELSE IF x.t = "str"
         THEN IF SubString(x.s, y.s) THEN "yes" ELSE "no"
         ELSE "TypeError"

\* the loop "for out in AD[cmd.output]" from index i: the chosen output, or
\* the list itself when no candidate passes the test
RECURSIVE PickOutput(_, _, _, _, _, _)
PickOutput(sad, hp, ifile, cands, i, dflt) ==
    IF i > Len(cands) THEN [v |-> dflt, err |-> "none"]
    ELSE
    LET out == cands[i] IN
    IF ~DictHas(sad, out) THEN PickOutput(sad, hp, ifile, cands, i + 1, dflt)
    ELSE IF ~DictHas(sad, ifile) THEN [v |-> dflt, err |-> "KeyError"]
    ELSE LET t == ValueIn(DictGet(sad, out), DictGet(sad, ifile), hp) IN
         IF t = "TypeError" THEN [v |-> dflt, err |-> "TypeError"]
         ELSE IF t = "yes" THEN [v |-> DictGet(sad, out), err |-> "none"]
         ELSE PickOutput(sad, hp, ifile, cands, i + 1, dflt)

\* the body of "for ifile in cmd.files": the entry appended to ret
CompileEntry(cmd, ifile, sad, hp) ==
    IF ~DictHas(sad, cmd.output) THEN [err |-> "KeyError"]
    ELSE
    LET first == DictGet(sad, cmd.output)
        pick  == IF first.t = "list"
                 THEN PickOutput(sad, hp, ifile, hp[first.id], 1, first)
                 ELSE [v |-> first, err |-> "none"]
        output == Snapshot(pick.v, hp)
        args0 == <<StrOut(cmd.exe)>> \o StrOuts(cmd.arguments)
        \* arguments[cmd.oindex + 1] = output
        args1 == [args0 EXCEPT ![cmd.oindex + 2] = output]
        rf    == reformatInputFile(ifile, args1, cmd.files, cmd.role)
    IN
    IF pick.err # "none" THEN [err |-> pick.err]
    ELSE IF cmd.oindex = NoIndex THEN [err |-> "TypeError"]
    ELSE IF rf.err # "none" THEN [err |-> rf.err]
    ELSE [err |-> "none", output |-> output, directory |-> cmd.directory,
          file |-> ifile, arguments |-> rf.arguments]

\* the two loops of ConstructCompilationDatabase from command c, file f
RECURSIVE ConstructCDFrom(_, _, _, _, _, _)
ConstructCDFrom(cd, sad, hp, c, f, st) ==
    IF st.err # "none" \/ c > Len(cd) THEN st
    ELSE IF f > Len(cd[c].files) THEN ConstructCDFrom(cd, sad, hp, c + 1, 1, st)
    ELSE LET e == CompileEntry(cd[c], cd[c].files[f], sad, hp) IN
         IF e.err # "none" THEN [st EXCEPT !.err = e.err]
         ELSE ConstructCDFrom(cd, sad, hp, c, f + 1,
                 [st EXCEPT !.ret = Append(@,
                     [output |-> e.output, directory |-> e.directory,
                      file |-> e.file, arguments |-> e.arguments])])

ConstructCompilationDatabase(cd, sad, hp) ==
    ConstructCDFrom(cd, sad, hp, 1, 1, [ret |-> << >>, err |-> "none"])

-----------------------------------------------------------------------------
(* CatchCompilationDatabase.ConstructLinkingDatabase.                       *)

\* the list keeps x
ReplaceFirst_Keep(l, x, y) == l

\* list[list.index(x)] = y
ReplaceFirst(l, x, y) == [l EXCEPT ![IndexOf(x, l) + 1] = y]

(* The body of "for ifile in cmd.files.copy()" from index i of the copy.    *)
(* st holds the command's arguments, the heap (cmd.files is cell fl) and    *)
(* the three partitions.  An object file whose alias is a list (a link      *)
(* whose output is itself named as an object file) is outside the captures  *)
(* modelled here and ends the walk with err "unmodelled".                   *)
RECURSIVE PartitionFiles(_, _, _, _, _)
PartitionFiles(copy, i, fl, sad, st) ==
    IF st.err # "none" \/ i > Len(copy) THEN st
    ELSE
    LET ifile == copy[i] IN
    IF DictHas(sad, ifile)
    THEN IF objectfilter(ifile)
         THEN LET v == DictGet(sad, ifile) IN
              IF v.t # "str" THEN [st EXCEPT !.err = "unmodelled"]
              ELSE IF ~InList(ifile, st.arguments) \/ ~InList(ifile, st.heap[fl])
                   THEN [st EXCEPT !.err = "ValueError"]
              ELSE PartitionFiles(copy, i + 1, fl, sad,
                     [st EXCEPT !.objs = Append(@, v.s),
                                !.arguments = ReplaceFirst(@, ifile, v.s),
                                !.heap[fl] = ReplaceFirst(@, ifile, v.s)])
         ELSE IF sharedfilter(ifile)
              THEN PartitionFiles(copy, i + 1, fl, sad,
                     [st EXCEPT !.sobjs = Append(@, ifile)])
              ELSE PartitionFiles(copy, i + 1, fl, sad,
                     [st EXCEPT !.archs = Append(@, ifile)])
    ELSE IF ~InList(ifile, st.heap[fl]) THEN [st EXCEPT !.err = "ValueError"]
    ELSE PartitionFiles(copy, i + 1, fl, sad,
            [st EXCEPT !.heap[fl] = RemoveFirst(ifile, @)])

(* The loop "for cmd in LD" from command c.  An emitted entry leaves out    *)
(* the keys objects, archives and shareds when their list is empty; here    *)
(* the absent key is the empty list.                                        *)
RECURSIVE ConstructLDFrom(_, _, _, _)
ConstructLDFrom(ld, sad, c, st) ==
    IF st.err # "none" \/ c > Len(ld) THEN st
    ELSE
    LET cmd == st.LD[c]
        fl  == cmd.files
        pf  == PartitionFiles(st.heap[fl], 1, fl, sad,
                  [arguments |-> cmd.arguments, heap |-> st.heap,
                   objs |-> << >>, archs |-> << >>, sobjs |-> << >>,
                   err |-> "none"])
        st1 == [st EXCEPT !.heap = pf.heap, !.LD[c].arguments = pf.arguments]
        lo  == [output |-> cmd.output, directory |-> cmd.directory,
                arguments |-> <<cmd.exe>> \o pf.arguments,
                objects |-> pf.objs, archives |-> pf.archs,
                shareds |-> pf.sobjs]
    IN
    IF pf.err # "none" THEN [st1 EXCEPT !.err = pf.err]
    ELSE IF pf.objs = << >> /\ pf.archs = << >> /\ pf.sobjs = << >>
         THEN ConstructLDFrom(ld, sad, c + 1, st1)
    ELSE ConstructLDFrom(ld, sad, c + 1, [st1 EXCEPT !.ret = Append(@, lo)])

ConstructLinkingDatabase(ld, sad, hp) ==
    ConstructLDFrom(ld, sad, 1,
        [ret |-> << >>, LD |-> ld, heap |-> hp, err |-> "none"])

-----------------------------------------------------------------------------
(* The capture run: HandleCompileCommands over the records of one build.   *)

T_cfile == <<"a", ".", "c">>
T_bfile == <<"b", ".", "c">>
T_aobj  == <<"a", ".", "o">>
T_eobj  == <<"e", ".", "o">>
T_exe   == <<"x">>
T_lib   == <<"l", ".", "a">>
T_tmpt  == <<"/", "t", "m", "p", "/", "t", ".", "o">>
T_tmpu  == <<"/", "t", "m", "p", "/", "u", ".", "o">>
T_tmps  == <<"/", "t", "m", "p", "/", "s", ".", "s">>
S_ld    == <<"l", "d">>
S_ar    == <<"a", "r">>
S_as    == <<"a", "s">>
S_cc1   == <<"c", "c", "1">>

Record(dir, arguments) == [pwd |-> dir, arguments |-> arguments]

\* the execution records a capture is drawn from
RecordMenu ==
    { \* compiler drivers
      Record(P_dir,   <<S_clang, T_c, T_cfile, T_o, T_aobj>>),
      Record(Tmp_dir, <<S_clang, T_c, T_cfile, T_o, T_aobj>>),
      Record(P_dir,   <<S_clang, T_cfile, T_o, T_exe>>),
      Record(P_dir,   <<S_clang, T_cfile, T_bfile, T_o, T_exe>>),
      \* compiler-internal stages
      Record(P_dir,   <<S_clang, T_cc1, T_mainfile, T_cfile, T_o, T_aobj>>),
      Record(Tmp_dir, <<S_clang, T_cc1, T_mainfile, T_cfile, T_o, T_aobj>>),
      Record(P_dir,   <<S_clang, T_cc1, T_mainfile, T_cfile, T_o, T_tmpt>>),
      Record(P_dir,   <<S_clang, T_cc1, T_mainfile, T_bfile, T_o, T_tmpu>>),
      Record(P_dir,   <<S_cc1, T_dumpbase, T_cfile, T_o, T_tmps>>),
      Record(P_dir,   <<S_as, T_o, T_tmpt, T_tmps>>),
      \* linkers and archivers
      Record(P_dir,   <<S_ld, T_o, T_exe, T_tmpt>>),
      Record(P_dir,   <<S_ld, T_o, T_exe, T_tmpt, T_tmpu>>),
      Record(P_dir,   <<S_ld, T_o, T_exe, T_aobj, T_eobj>>),
      Record(P_dir,   <<S_ar, <<"r", "c">>, T_lib, T_aobj>>),
      Record(P_dir,   <<S_ld, T_o, T_exe, T_lib, T_eobj>>) }

BuildInit ==
    /\ records \in UNION { [1..n -> RecordMenu] : n \in 0..MaxRecords }
    /\ CD = << >>
    /\ LD = << >>
    /\ AD = << >>
    /\ heap = << >>
    /\ SAD = << >>
    /\ SAD2 = << >>
    /\ CDJson = << >>
    /\ LDJson = << >>
    /\ bpc = "start"
    /\ berr = "none"
    /\ ParseIdle
    /\ DeductIdle
    /\ RestIdle

\* what one step of HandleCompileCommands leaves in its locals
Collected(st) ==
    /\ CD' = st.CD
    /\ LD' = st.LD
    /\ AD' = st.AD
    /\ heap' = st.heap
    /\ berr' = st.err
    /\ bpc' = IF st.err = "none" THEN "collected" ELSE "raised"

Simplified(st) ==
    /\ heap' = st.heap
    /\ SAD' = st.ret
    /\ berr' = st.err
    /\ bpc' = IF st.err = "none" THEN "simplified" ELSE "raised"

Compiled(st) ==
    /\ CDJson' = st.ret
    /\ berr' = st.err
    /\ bpc' = IF st.err = "none" THEN "compiled" ELSE "raised"

Linked(st) ==
    /\ LDJson' = st.ret
    /\ LD' = st.LD
    /\ heap' = st.heap
    /\ berr' = st.err
    /\ bpc' = IF st.err = "none" THEN "linked" ELSE "raised"

\* lines 788-814: the records are classified
Traverse ==
    /\ bpc = "start"
    /\ Collected(TraverseCommands(
                    [CD |-> << >>, LD |-> << >>, AD |-> << >>,
                     heap |-> << >>, err |-> "none"], records, 1))
    /\ UNCHANGED <<records, SAD, SAD2, CDJson, LDJson, parseVars, deductVars,
                   restVars>>

\* line 815: AliasDatabase = SimplifyAlias(AliasDatabase)
DoSimplifyAlias ==
    /\ bpc = "collected"
    /\ Simplified(SimplifyAlias(AD, heap))
    /\ UNCHANGED <<records, CD, LD, AD, SAD2, CDJson, LDJson, parseVars,
                   deductVars,
                   restVars>>

\* lines 816-817: CDJson = ConstructCompilationDatabase(...)
DoConstructCompilationDatabase ==
    /\ bpc = "simplified"
    /\ Compiled(ConstructCompilationDatabase(CD, SAD, heap))
    /\ UNCHANGED <<records, CD, LD, AD, heap, SAD, SAD2, LDJson, parseVars,
                   deductVars,
                   restVars>>

\* line 818: LDJson = ConstructLinkingDatabase(...)
DoConstructLinkingDatabase ==
    /\ bpc = "compiled"
    /\ Linked(ConstructLinkingDatabase(LD, SAD, heap))
    /\ UNCHANGED <<records, CD, AD, SAD, SAD2, CDJson, parseVars, deductVars,
                   restVars>>

BuildNext ==
    \/ Traverse
    \/ DoSimplifyAlias
    \/ DoConstructCompilationDatabase
    \/ DoConstructLinkingDatabase
SpecBuild == BuildInit /\ [][BuildNext]_vars

Resimplified(st) ==
    /\ heap' = st.heap
    /\ SAD2' = st.ret
    /\ berr' = st.err
    /\ bpc' = "resimplified"

\* SimplifyAlias called once more on the accumulated map
DoSimplifyAliasAgain ==
    /\ bpc = "simplified"
    /\ Resimplified(SimplifyAlias(AD, heap))
    /\ UNCHANGED <<records, CD, LD, AD, SAD, CDJson, LDJson, parseVars,
                   deductVars,
                   restVars>>

AliasNext == Traverse \/ DoSimplifyAlias \/ DoSimplifyAliasAgain
SpecAlias == BuildInit /\ [][AliasNext]_vars

-----------------------------------------------------------------------------
(* The parse run: one argument vector is classified by one profile.        *)

\* the executables and the tokens the argument vectors are drawn from
ParseExes == { S_clang, <<"a", "r">>, <<"l", "s">> }
ParseTokens ==
    { T_c, T_E, T_o,
      <<"-", "o", "b", ".", "o">>,
      <<"-", "l">>, <<"-", "l", "m">>, <<"-", "M", "T">>,
      <<"-", "W", "a", "l", "l">>,
      <<"a", ".", "c">>, <<"b", ".", "o">>, <<"l", ".", "a">>,
      <<"m", ".", "a">>,
      <<"/", "t", "m", "p", "/", "t", ".", "c">> }

ArgLists(n) == UNION { [1..k -> ParseTokens] : k \in 0..n }

ParseInit ==
    /\ argv \in {<< >>} \cup
                { <<e>> \o a : e \in ParseExes, a \in ArgLists(MaxArgs) }
    /\ pwd = P_dir
    /\ result = [cmd |-> ParseNone]
    /\ ppc = "start"
    /\ BuildIdle
    /\ DeductIdle
    /\ RestIdle

\* CC1Filter.MatchArguments(exe.arguments, exe.pwd)
CC1Match ==
    /\ ppc = "start"
    /\ result' = CC1Filter_MatchArguments(argv, pwd)
    /\ ppc' = "cc1"
    /\ UNCHANGED <<argv, pwd, buildVars, deductVars, restVars>>

\* ARFilter.MatchArguments(exe.arguments, exe.pwd)
ARMatch ==
    /\ ppc = "start"
    /\ result' = ARFilter_MatchArguments(argv, pwd)
    /\ ppc' = "ar"
    /\ UNCHANGED <<argv, pwd, buildVars, deductVars, restVars>>

ParseNext == CC1Match \/ ARMatch
SpecParse == ParseInit /\ [][ParseNext]_vars


-----------------------------------------------------------------------------
(* Properties of the parse run.                                            *)

Range(f) == { f[i] : i \in DOMAIN f }

\* the tokens that bind the token after them when they stand alone
BareBinding(t) ==
    t \in { T_o, <<"-", "l">>, <<"-", "L">>, <<"-", "M", "T">>, <<"-", "M", "F">> }

\* position k of the vector holds the parameter of the bare binding flag
\* before it (binding goes left to right, so a bound token binds nothing)
RECURSIVE IsParam(_, _)
IsParam(a, k) ==
    /\ k >= 3
    /\ BareBinding(a[k - 1])
    /\ ~IsParam(a, k - 1)

Removable(t) == \E i \in 1..Len(cc1remove) : ReMatch(cc1remove[i].matcher, t) >= 0
\* the count the first matching pattern of cc1remove declares
DeclaredCount(t) ==
    cc1remove[CHOOSE i \in 1..Len(cc1remove) :
                /\ ReMatch(cc1remove[i].matcher, t) >= 0
                /\ \A j \in 1..(i - 1) : ReMatch(cc1remove[j].matcher, t) < 0].count
\* the following tokens a removable flag takes with it
Pulled(t) == IF BareBinding(t) THEN 1 ELSE 0

CompilerVector == argv # << >> /\ cc1filter(BaseName(argv[1]))
CC1Accepted == ppc = "cc1" /\ result.cmd.kind = "tuple"

\* C1 as stated: a Compiler vector holding an abort token at any position
\* after the executable is classified as None.
C1_AbortAnywhere ==
    (ppc = "cc1" /\ CompilerVector
        /\ \E k \in 2..Len(argv) : argv[k] \in cc1abort)
    => result.cmd.kind = "None"

\* C1 (amended): a Compiler vector holding an abort token that is not bound
\* as the parameter of a preceding bare -o, -l, -L, -MT or -MF is classified
\* as None, whatever the other tokens are.
C1_AbortReached ==
    (ppc = "cc1" /\ CompilerVector
        /\ \E k \in 2..Len(argv) : argv[k] \in cc1abort /\ ~IsParam(argv, k))
    => result.cmd.kind = "None"

C1_Witness ==
    /\ ppc = "cc1"
    /\ CompilerVector
    /\ \E k \in 4..Len(argv) :
          /\ argv[k] \in cc1abort
          /\ ~IsParam(argv, k)
          /\ BareBinding(argv[k - 2])
    /\ result.cmd.kind = "None"

\* C2 as stated: in an accepted Compiler vector every token matching a
\* removable pattern is absent from the reconstructed arguments together
\* with the N following tokens its pattern declares.
C2_DeclaredCountRemoved ==
    CC1Accepted =>
        \A k \in 2..Len(argv) :
            Removable(argv[k]) =>
                \A j \in k..(k + DeclaredCount(argv[k])) :
                    j <= Len(argv) => j \notin Range(result.cmd.origin)

\* C2 (amended): in an accepted Compiler vector every token that matches a
\* removable pattern and is not itself the parameter of a preceding bare
\* binding flag is absent from the reconstructed arguments; a bare -l, -L,
\* -MT or -MF takes exactly the one following token with it, a glued -l/-L
\* and the N=0 patterns take none, and the token after the removed ones is
\* kept unless it is removable itself.
C2_RemovedExactly ==
    CC1Accepted =>
        \A k \in 2..Len(argv) :
            (Removable(argv[k]) /\ ~IsParam(argv, k)) =>
                LET n == Pulled(argv[k]) IN
                /\ k + n <= Len(argv)
                /\ \A j \in k..(k + n) : j \notin Range(result.cmd.origin)
                /\ (k + n + 1 <= Len(argv) /\ ~Removable(argv[k + n + 1]))
                      => (k + n + 1) \in Range(result.cmd.origin)

C2_Witness ==
    /\ CC1Accepted
    /\ \E k \in 2..Len(argv) :
          /\ argv[k] = <<"-", "l">>
          /\ ~IsParam(argv, k)
          /\ k + 2 <= Len(argv)
          /\ (k + 1) \notin Range(result.cmd.origin)
          /\ (k + 2) \in Range(result.cmd.origin)

\* C3 as stated: ParseExecutionCommands never raises; it returns None or a
\* descriptor tuple for every argument vector.
C3_NeverRaises ==
    ppc \in {"cc1", "ar"} => result.cmd.kind \in {"None", "tuple"}

\* C4: the reconstructed arguments of an accepted vector keep the order of
\* the original tokens: each comes from one original token, unchanged or as
\* the directory-joined path of a tracked file or of the output, the
\* positions they come from never decrease, two come from the same position
\* only as the flag and the path of a glued output flag, and the positions
\* left out are exactly the removed flags and their parameters.
C4_OrderPreserved ==
    (ppc \in {"cc1", "ar"} /\ result.cmd.kind = "tuple") =>
        LET r == result.cmd
            o == r.origin
            a == r.arguments
            GluedAt(j) ==
                /\ j < Len(o)
                /\ o[j] = o[j + 1]
                /\ a[j] = T_o
                /\ StartsWith(argv[o[j]], T_o)
                /\ Len(argv[o[j]]) > 2
                /\ a[j + 1] = PathJoin(pwd, Tail2(argv[o[j]], 2))
            \* a[j] is the path bound to the bare -o before it, or the
            \* positional archive of the Archiver profile
            OutputAt(j) ==
                \/ /\ j > 1
                   /\ a[j - 1] = T_o
                   /\ argv[o[j] - 1] = T_o
                   /\ o[j - 1] = o[j] - 1
                \/ ppc = "ar" /\ archivefilter(argv[o[j]])
        IN
        /\ Len(o) = Len(a)
        /\ \A j \in 1..Len(o) :
              /\ o[j] \in 2..Len(argv)
              /\ j < Len(o) => o[j] <= o[j + 1]
              /\ (j < Len(o) /\ o[j] = o[j + 1]) => GluedAt(j)
              /\ \/ a[j] = argv[o[j]]
                 \/ /\ a[j] = PathJoin(pwd, argv[o[j]])
                    /\ (InList(a[j], r.files) \/ OutputAt(j))
                 \/ GluedAt(j)
                 \/ (j > 1 /\ GluedAt(j - 1))
        /\ \A k \in 2..Len(argv) :
              k \notin Range(o) =>
                 /\ ppc = "cc1"
                 /\ \/ Removable(argv[k]) /\ ~IsParam(argv, k)
                    \/ IsParam(argv, k) /\ Removable(argv[k - 1])

C4_Witness ==
    /\ CC1Accepted
    /\ Len(result.cmd.arguments) >= 3
    /\ \E j \in 1..(Len(result.cmd.origin) - 1) :
          result.cmd.origin[j] = result.cmd.origin[j + 1]
    /\ result.cmd.files # << >>
    /\ Len(result.cmd.origin) < Len(argv)

-----------------------------------------------------------------------------
(* Properties of the capture run.                                          *)

\* a dumped value that is, or holds, a path under /tmp/
ScratchOut(v) ==
    IF v.t = "str" THEN InTmp(v.s)
    ELSE \E i \in 1..Len(v.l) : InTmp(v.l[i])

\* the value in the slot after "-o" of an emitted argument list
OutputSlots(arguments) ==
    { arguments[k + 1] : k \in { j \in 1..(Len(arguments) - 1) :
                                   arguments[j] = StrOut(T_o) } }

\* C5: once SimplifyAlias and ConstructCompilationDatabase have run, no
\* emitted compile command has an output, or a value in its output-argument
\* slot, that is a path under /tmp/ or a list holding such a path.
C5_NoScratchOutput ==
    bpc \in {"compiled", "linked"} =>
        \A e \in 1..Len(CDJson) :
            /\ ~ScratchOut(CDJson[e].output)
            /\ \A v \in OutputSlots(CDJson[e].arguments) : ~ScratchOut(v)

\* a simplified map as json.dump would write it: key -> dumped value
DumpOf(d) == { <<d[i].k, Snapshot(d[i].v, heap)>> : i \in 1..Len(d) }

\* C6: SimplifyAlias run a second time over the same accumulated alias map
\* completes and returns a map equal to the one the first run returned.
C6_Idempotent ==
    bpc = "resimplified" => berr = "none" /\ DumpOf(SAD2) = DumpOf(SAD)

\* C7: no two entries of the emitted compilation database have the same
\* output path.
C7_UniqueOutputs ==
    \A i, j \in 1..Len(CDJson) :
        i # j => CDJson[i].output # CDJson[j].output

\* the step in which ConstructLinkingDatabase runs
LinkingStep == bpc = "compiled" /\ bpc' # "compiled"

\* C8: ConstructLinkingDatabase does not raise, and every tracked file of a
\* descriptor that is not a key of the simplified alias map is afterwards in
\* neither the descriptor's file list nor the argument list of the link
\* command emitted for it.
C8_DroppedFromBoth ==
    [][LinkingStep =>
        /\ berr' = "none"
        /\ \A c \in 1..Len(LD) :
             \A f \in Range(heap[LD[c].files]) :
                ~DictHas(SAD, f) =>
                    /\ ~InList(f, heap'[LD'[c].files])
                    /\ \A e \in 1..Len(LDJson') :
                          LDJson'[e].output = LD[c].output =>
                              ~InList(f, LDJson'[e].arguments)]_vars

-----------------------------------------------------------------------------
(* The target run: ParseLDList reads link_commands.json into the linking    *)
(* database and DeductTargets (PreprocessProject with opts.target set and a *)
(* non-empty compilation database) expands every link target.               *)

NameChars == <<"1", "2", "3", "4", "5", "6", "7", "8", "9">>
TargetName(i) == <<"t", NameChars[i]>>
ObjectName(i) == <<"o", NameChars[i]>>
SharedObject  == <<"o", "s">>
UnknownName   == <<"u">>

\* one job of link_commands.json; keys is the set of optional keys present
Job(i, keys, objects, archives, shareds) ==
    [directory |-> P_dir, output |-> TargetName(i), keys |-> keys,
     objects |-> objects, archives |-> archives, shareds |-> shareds]

\* the jobs the i-th entry of a file of n entries is drawn from
JobMenu(i, n) ==
    LET own == <<ObjectName(i)>>
        nxt == TargetName((i % n) + 1)
        prv == TargetName(((i + n - 2) % n) + 1)
    IN
    { Job(i, {"objects"}, own, << >>, << >>),
      Job(i, {"objects"}, own \o <<SharedObject>>, << >>, << >>),
      Job(i, {"objects", "archives"}, own, <<UnknownName>>, << >>),
      Job(i, {"objects", "shareds"}, own, << >>, <<nxt>>),
      Job(i, {"objects", "archives", "shareds"}, own, <<nxt>>, <<prv>>),
      Job(i, {"archives"}, << >>, <<nxt>>, << >>) }
    \cup { Job(i, {"objects", "archives"}, own, <<TargetName(j)>>, << >>) :
             j \in 1..n }
    \cup (IF i + 2 <= n
          THEN { Job(i, {"objects", "archives"}, own,
                     <<TargetName(i + 1), TargetName(i + 2)>>, << >>) }
          ELSE { })

LinkingAlias(output, objects, libraries) ==
    [output |-> output, objects |-> objects, libraries |-> libraries]

\* joinDirectory(job, item), for an item that is present
joinDirectory(job, l) == [i \in 1..Len(l) |-> PathJoin(job.directory, l[i])]

\* the value of the conditional expression at lines 918-919, which Python
\* reads as  A if 'archives' in job else (([] + S) if 'shareds' in job else [])
Libraries(job) ==
    IF "archives" \in job.keys THEN joinDirectory(job, job.archives)
    ELSE IF "shareds" \in job.keys THEN << >> \o joinDirectory(job, job.shareds)
    ELSE << >>

\* the loop "for job in LDList" from index i; job['objects'] raises KeyError
\* when the key is absent
RECURSIVE ParseLDFrom(_, _, _)
ParseLDFrom(list, i, st) ==
    IF st.err # "none" \/ i > Len(list) THEN st
    ELSE
    LET job    == list[i]
        output == PathJoin(job.directory, job.output)
    IN
    IF "objects" \notin job.keys THEN [st EXCEPT !.err = "KeyError"]
    ELSE ParseLDFrom(list, i + 1,
            [st EXCEPT !.ret = DictSet(@, output,
                LinkingAlias(output, joinDirectory(job, job.objects),
                             Libraries(job)))])

\* ParseLDList(LDList); None (an empty list) is the empty dict here, which
\* "if not ldb" treats alike
ParseLDList(list) == ParseLDFrom(list, 1, [ret |-> << >>, err |-> "none"])

-----------------------------------------------------------------------------
(* PreprocessProject.DeductTargets.                                         *)

\* dependency[key] += ret
IAdd_FirstOnly(dep, key, ret) ==
    DictSet(dep, key, DictGet(dep, key) \o Head2(ret, 1))

IAdd(dep, key, ret) == DictSet(dep, key, DictGet(dep, key) \o ret)

\* Python gives up a recursion deeper than its limit with RecursionError; a
\* database of n targets never nests DeductOneTarget deeper than n + 1
RecursionLimit(db) == Len(db) + 1

\* "target.output not in dependency" is false: the memo answers the call
Memoised_Never(dep, target) == FALSE

Memoised(dep, target) == DictHas(dep, target.output)

(* DeductOneTarget(target) at nesting depth d.  st holds the dependency     *)
(* dict, the returned list, the exception, if one was raised, and the       *)
(* targets whose body (lines 440-443) was entered, in order.                *)
(* DeductLibraries is the loop "for lib in target.libraries" from index i.  *)
RECURSIVE DeductOneTarget(_, _, _, _)
RECURSIVE DeductLibraries(_, _, _, _, _)
DeductOneTarget(db, target, d, st) ==
    IF d > RecursionLimit(db) THEN [st EXCEPT !.err = "RecursionError"]
    ELSE IF Memoised(st.dependency, target)
    THEN [st EXCEPT !.ret = DictGet(st.dependency, target.output)]
    ELSE
    LET st1 == [st EXCEPT !.dependency =
                    DictSet(@, target.output, target.objects),
                          !.expanded = Append(@, target.output)]
        st2 == DeductLibraries(db, target, 1, d, st1)
    IN
    IF st2.err # "none" THEN st2
    ELSE [st2 EXCEPT !.ret = DictGet(st2.dependency, target.output)]

DeductLibraries(db, target, i, d, st) ==
    IF st.err # "none" \/ i > Len(target.libraries) THEN st
    ELSE
    LET lib == target.libraries[i] IN
    IF ~DictHas(db, lib) THEN [st EXCEPT !.err = "KeyError"]
    ELSE
    LET r == DeductOneTarget(db, DictGet(db, lib), d + 1, st) IN
    IF r.err # "none" THEN r
    ELSE DeductLibraries(db, target, i + 1, d,
            [r EXCEPT !.dependency = IAdd(@, target.output, r.ret)])

\* the loop "for tout in ldb" from the k-th key
RECURSIVE DeductFrom(_, _, _)
DeductFrom(db, k, st) ==
    IF st.err # "none" \/ k > Len(db) THEN st
    ELSE DeductFrom(db, k + 1, DeductOneTarget(db, db[k].v, 1, st))

\* DeductTargets(): "if not ldb: return", else every target is expanded
DeductTargets(db) ==
    DeductFrom(db, 1, [dependency |-> << >>, ret |-> << >>, err |-> "none",
                       expanded |-> << >>])

\* the files of n entries, from entry i on
RECURSIVE JobLists(_, _)
JobLists(n, i) ==
    IF i > n THEN { << >> }
    ELSE { <<j>> \o r : j \in JobMenu(i, n), r \in JobLists(n, i + 1) }

DeductInit ==
    /\ LDList \in UNION { JobLists(n, 1) : n \in 0..MaxTargets }
    /\ ldb = << >>
    /\ dependency = << >>
    /\ expanded = << >>
    /\ dpc = "start"
    /\ derr = "none"
    /\ ParseIdle
    /\ BuildIdle
    /\ RestIdle

\* what ParseLDList leaves behind
Parsed(st) ==
    /\ ldb' = st.ret
    /\ derr' = st.err
    /\ dpc' = IF st.err = "none" THEN "parsed" ELSE "raised"

\* what DeductTargets leaves behind
Deducted(st) ==
    /\ dependency' = st.dependency
    /\ expanded' = st.expanded
    /\ derr' = st.err
    /\ dpc' = IF st.err = "none" THEN "deducted" ELSE "aborted"

\* line 922: ParseLDList(LDList)
DoParseLDList ==
    /\ dpc = "start"
    /\ Parsed(ParseLDList(LDList))
    /\ UNCHANGED <<LDList, dependency, expanded, parseVars, buildVars,
                   restVars>>

\* lines 448-449: DeductTargets()
DoDeductTargets ==
    /\ dpc = "parsed"
    /\ Deducted(DeductTargets(ldb))
    /\ UNCHANGED <<LDList, ldb, parseVars, buildVars, restVars>>

DeductNext == DoParseLDList \/ DoDeductTargets
SpecDeduct == DeductInit /\ [][DeductNext]_vars

-----------------------------------------------------------------------------
(* Properties of the target run.                                            *)

\* the library edges of the linking database, read off ldb itself
LibsOf(db, t)  == Range(DictGet(db, t).libraries)
AllKnown(db)   == \A t \in DictKeys(db) : LibsOf(db, t) \subseteq DictKeys(db)
KnownLibs(db, t) == LibsOf(db, t) \cap DictKeys(db)

\* the targets reachable from the set S in at most k library steps
RECURSIVE ReachIn(_, _, _)
ReachIn(db, S, k) ==
    IF k = 0 THEN S
    ELSE ReachIn(db, S \cup UNION { KnownLibs(db, t) : t \in S }, k - 1)

Reachable(db, t) == ReachIn(db, {t}, Len(db))
Acyclic(db) ==
    \A t \in DictKeys(db) : t \notin ReachIn(db, KnownLibs(db, t), Len(db))

DeductDone == dpc \in {"deducted", "aborted"}

\* C9: DeductTargets completes without error when a library list names a
\* path that is not a key of the linking database; every known target is
\* still expanded.
C9_UnknownLibraryIgnored ==
    (DeductDone /\ ~AllKnown(ldb)) =>
        /\ dpc = "deducted"
        /\ derr = "none"
        /\ DictKeys(dependency) = DictKeys(ldb)

\* C10: on an acyclic linking database whose libraries are all known targets
\* DeductTargets finishes, and for every target T the dependency list holds
\* every object listed for T and every element of the dependency list of
\* each library of T; as a set it is the union of the object lists of the
\* targets reachable from T.
C10_Expansion ==
    (DeductDone /\ Acyclic(ldb) /\ AllKnown(ldb)) =>
        /\ dpc = "deducted"
        /\ DictKeys(dependency) = DictKeys(ldb)
        /\ \A t \in DictKeys(ldb) :
            LET dep == Range(DictGet(dependency, t)) IN
            /\ Range(DictGet(ldb, t).objects) \subseteq dep
            /\ \A l \in LibsOf(ldb, t) :
                  Range(DictGet(dependency, l)) \subseteq dep
            /\ dep = UNION { Range(DictGet(ldb, r).objects) :
                               r \in Reachable(ldb, t) }

\* a finished expansion of an acyclic, closed database in which some target
\* has a library that has a library of its own, and whose objects it gained
C10_Witness ==
    /\ dpc = "deducted"
    /\ Acyclic(ldb)
    /\ AllKnown(ldb)
    /\ \E t \in DictKeys(ldb) : \E l \in LibsOf(ldb, t) :
          \E m \in LibsOf(ldb, l) :
             /\ m \notin LibsOf(ldb, t)
             /\ DictGet(ldb, m).objects # << >>
             /\ Range(DictGet(ldb, m).objects)
                   \subseteq Range(DictGet(dependency, t))

-----------------------------------------------------------------------------
(* Properties of the Archiver profile.                                      *)

ARAccepted == ppc = "ar" /\ result.cmd.kind = "tuple"

\* the positions of argv, after the executable, that match the archive
\* extension
ArchivePositions == { k \in 2..Len(argv) : archivefilter(argv[k]) }
FirstArchive == CHOOSE k \in ArchivePositions : \A j \in ArchivePositions : k <= j

\* C17: the output of an Archiver descriptor is the first positional token
\* that matches the archive extension, joined with the directory, and the
\* output index points at that token, also when later tokens match the
\* archive extension.
C17_FirstArchiveIsOutput ==
    (ARAccepted /\ ArchivePositions # { }) =>
        /\ result.cmd.output = PathJoin(pwd, argv[FirstArchive])
        /\ result.cmd.oindex = FirstArchive - 2

\* C18: on every linking database whose library references are all known
\* targets, cyclic and self-referencing ones included, DeductTargets finishes
\* with an entry for every target, and the body of DeductOneTarget is entered
\* at most once for each target.
C18_TerminatesOnCycles ==
    (DeductDone /\ AllKnown(ldb)) =>
        /\ dpc = "deducted"
        /\ DictKeys(dependency) = DictKeys(ldb)
        /\ \A i, j \in 1..Len(expanded) : expanded[i] = expanded[j] => i = j

\* a finished expansion of a closed database with a library cycle
C18_Witness ==
    /\ dpc = "deducted"
    /\ AllKnown(ldb)
    /\ ~Acyclic(ldb)
    /\ Len(expanded) = Len(ldb)
    /\ Len(ldb) >= 2

\* the libraries a persisted job names, as joined paths
NamedLibraries(job) ==
    Range(joinDirectory(job, job.archives))
        \cup Range(joinDirectory(job, job.shareds))

\* C16: for a persisted entry that lists both archives and shareds, every
\* archive and every shared library that is a known link target has its own
\* expansion contained in the entry's dependency list.
C16_ArchivesAndShareds ==
    dpc = "deducted" =>
        \A i \in 1..Len(LDList) :
            {"archives", "shareds"} \subseteq LDList[i].keys =>
                \A l \in NamedLibraries(LDList[i]) \cap DictKeys(ldb) :
                    Range(DictGet(dependency, l)) \subseteq
                        Range(DictGet(dependency,
                            PathJoin(LDList[i].directory, LDList[i].output)))

-----------------------------------------------------------------------------
(* Properties of the emitted compile commands.                              *)

\* the (descriptor, tracked file) pairs of CompilationDatabase, in order
RECURSIVE TrackedPairs(_, _, _)
TrackedPairs(cd, c, f) ==
    IF c > Len(cd) THEN << >>
    ELSE IF f > Len(cd[c].files) THEN TrackedPairs(cd, c + 1, 1)
    ELSE <<[cmd |-> cd[c], file |-> cd[c].files[f]]>>
            \o TrackedPairs(cd, c, f + 1)

CountOf(x, l) == Cardinality({ i \in 1..Len(l) : l[i] = x })

CDEmitted == bpc \in {"compiled", "linked"}

DriverRecord == Record(P_dir, <<S_clang, T_cfile, T_o, T_exe>>)
StageRecord  == Record(P_dir, <<S_clang, T_cc1, T_mainfile, T_cfile, T_o, T_tmpt>>)
LinkerRecord == Record(P_dir, <<S_ld, T_o, T_exe, T_tmpt>>)
TwoStageCapture ==
    /\ Len(records) = 3
    /\ Range(records) = {DriverRecord, StageRecord, LinkerRecord}

\* S.X.o for S = /p/a.c and X.o = t.o
StableName == PathJoin(P_dir, T_cfile) \o Dot \o BaseName(T_tmpt)

\* C15: for the two-stage capture, in any record order, the run does not
\* raise; the compile command emitted for the source has the stable name
\* S.X.o as output, and the link command emitted for the target lists that
\* name, and not the temporary path, in its objects and its arguments.
C15_StableNameAgrees ==
    TwoStageCapture =>
        /\ bpc # "raised"
        /\ CDEmitted =>
              /\ Len(CDJson) = 1
              /\ CDJson[1].file = PathJoin(P_dir, T_cfile)
              /\ CDJson[1].output = StrOut(StableName)
        /\ bpc = "linked" =>
              /\ Len(LDJson) = 1
              /\ LDJson[1].output = PathJoin(P_dir, T_exe)
              /\ LDJson[1].objects = <<StableName>>
              /\ InList(StableName, LDJson[1].arguments)
              /\ ~InList(T_tmpt, LDJson[1].arguments)

\* the two-stage capture, linker record first, with both databases emitted
C15_Witness ==
    /\ TwoStageCapture
    /\ records[1] = LinkerRecord
    /\ bpc = "linked"
    /\ LDJson # << >>
    /\ CDJson # << >>

-----------------------------------------------------------------------------
(* class CC1JsonFilter, ParseCompilationCommands.ParseCDList and            *)
(* PreprocessProject.MakePreprocessJob: the job run.                        *)

\* the most entries of a persisted compilation database
MaxEntries == 1

S_clangxx == S_clang \o <<"+", "+">>
\* CC1JsonFilter.cc1compiler after setCompilers(opts.cc, opts.cxx) with the
\* defaults Default.cc and Default.cxx
cc1compiler == <<S_clang, S_clangxx>>
cc1jsonremove ==
    cc1remove \o << ParameterType("^-(w|g|O([0123sg]|fast)?)$", 0) >>
cc1append == << <<"-", "w">>, <<"-", "g">>, <<"-", "O", "0">> >>

CC1JsonFilter ==
    [cls |-> "CC1JsonFilter", execfilter |-> <<"cc1jsoncc", "cc1jsoncxx">>,
     abort |-> cc1abort, remove |-> cc1jsonremove, output |-> cc1output,
     source |-> "sourcefilter"]

\* CC1JsonFilter.MatchExec: the configured compiler, or NoPath for None
CC1JsonFilter_MatchExec(exe) ==
    LET index == MatchExecFilterIndex(CC1JsonFilter, exe) IN
    IF index = NoIndex THEN NoPath ELSE cc1compiler[index + 1]

\* Filter.ParseExecutionCommands as CC1JsonFilter runs it (self.MatchExec is
\* the override)
CC1JsonFilter_ParseExecutionCommands(arguments, dir) ==
    IF arguments = << >> THEN ParseRaise
    ELSE ParseExecutionCommandsWith(CC1JsonFilter,
            CC1JsonFilter_MatchExec(arguments[1]), arguments, dir)

\* str.rstrip('/')
RECURSIVE RStripSlash(_)
RStripSlash(p) ==
    IF p # << >> /\ p[Len(p)] = Slash THEN RStripSlash(Head2(p, Len(p) - 1))
    ELSE p

\* os.path.dirname(p) on POSIX
DirName(p) ==
    LET cut  == {i \in 1..Len(p) : p[i] = Slash}
        last == IF cut = {} THEN 0
                ELSE CHOOSE i \in cut : \A j \in cut : j <= i
        head == Head2(p, last)
    IN IF head # << >> /\ ~AllIn(head, {Slash}) THEN RStripSlash(head)
       ELSE head

\* CC1Filter.getTargetID: [err |-> "IndexError"] when dirname is empty
getTargetID(name) ==
    LET d == DirName(name) IN
    IF d = << >> THEN [err |-> "IndexError", id |-> << >>]
    ELSE [err |-> "none", id |-> <<d[Len(d)]>> \o <<".">> \o BaseName(name)]

\* one object of compile_commands.json in its "arguments" form
Entry(dir, file, arguments) ==
    [directory |-> dir, file |-> file, arguments |-> arguments]

\* CompilingCommands as CC1JsonFilter.MatchArguments fills it
JsonNone ==
    [err |-> "none", compiler |-> NoPath, directory |-> NoPath,
     files |-> << >>, arguments |-> << >>, output |-> NoPath,
     oindex |-> NoIndex]

\* the element of a one-element set: an intermediate result, computed once
TheOnly(S) == CHOOSE x \in S : TRUE

(* CC1JsonFilter.MatchArguments(job) from line 855 on, r being the result of *)
(* ParseExecutionCommands.  result[4] is read before "if result", so a None  *)
(* result is a TypeError, and so is objectfilter.match(None) for a command   *)
(* without output.                                                           *)
CompilingCommandsOf(job, r) ==
    IF r.kind = "raise" THEN [JsonNone EXCEPT !.err = "StopIteration"]
    ELSE IF r.kind = "None" \/ r.output = NoPath
         THEN [JsonNone EXCEPT !.err = "TypeError"]
    ELSE
    LET isobj  == objectfilter(r.output)
        target == getTargetID(r.output)
        output == IF isobj THEN r.output
                  ELSE job.file \o <<".">> \o target.id \o <<".", "o">>
        args   == IF isobj THEN r.arguments
                  ELSE [r.arguments EXCEPT ![r.oindex + 1] = output]
    IN IF ~isobj /\ target.err # "none"
       THEN [JsonNone EXCEPT !.err = target.err]
       ELSE [err |-> "none", compiler |-> r.exe, directory |-> r.pwd,
             files |-> r.files, arguments |-> args \o cc1append,
             output |-> output, oindex |-> r.oindex]

\* CC1JsonFilter.MatchArguments(job), job['file'] already joined
CC1JsonFilter_MatchArguments(job) ==
    TheOnly({ CompilingCommandsOf(job, r) :
                r \in {CC1JsonFilter_ParseExecutionCommands(job.arguments,
                                                            job.directory)} })

UnStr(l) == [i \in 1..Len(l) |-> l[i].s]

\* line 888: job['file'] = os.path.join(job['directory'], job['file'])
JoinedEntry(e) == [e EXCEPT !.file = PathJoin(e.directory, @)]

\* lines 889-896: the body of "for job in CDList" once MatchArguments has
\* returned parsed; st is [cdret, err]
ParseOneEntry(st, job, parsed) ==
    LET re == reformatInputFile(job.file, StrOuts(parsed.arguments),
                                parsed.files, InList(T_c, parsed.arguments))
    IN IF parsed.err # "none" THEN [st EXCEPT !.err = parsed.err]
       ELSE IF re.err # "none" THEN [st EXCEPT !.err = re.err]
       ELSE [st EXCEPT !.cdret =
               DictSet(@, parsed.output,
                       [parsed EXCEPT !.arguments = UnStr(re.arguments)])]

\* "for job in CDList" from the i-th entry on
RECURSIVE ParseCDFrom(_, _, _)
ParseCDFrom(list, i, st) ==
    IF st.err # "none" \/ i > Len(list) THEN st
    ELSE ParseCDFrom(list, i + 1,
            TheOnly({ ParseOneEntry(st, JoinedEntry(list[i]), parsed) :
                        parsed \in {CC1JsonFilter_MatchArguments(
                                       JoinedEntry(list[i]))} }))

\* ParseCompilationCommands.ParseCDList; None is the empty dict
ParseCDList(list) == ParseCDFrom(list, 1, [cdret |-> << >>, err |-> "none"])

\* Default.PathTreeRoot
PathTreeRoot ==
    <<"p", "r", "e", "p", "r", "o", "c", "e", "s", "s", "-", "r", "o", "o", "t">>
\* opts.output, an absolute path
OutputDir == <<"/", "o", "u", "t">>

\* the components of p.split('/') from position i on that normpath keeps:
\* empty ones and "." are dropped, ".." drops the one before it
RECURSIVE Components(_, _, _, _)
Components(p, i, cur, acc) ==
    LET close == IF cur = << >> \/ cur = <<".">> THEN acc
                 ELSE IF cur = <<".", ".">>
                      THEN Head2(acc, IF Len(acc) > 0 THEN Len(acc) - 1 ELSE 0)
                      ELSE Append(acc, cur)
    IN IF i > Len(p) THEN close
       ELSE IF p[i] = Slash THEN Components(p, i + 1, << >>, close)
       ELSE Components(p, i + 1, Append(cur, p[i]), acc)

RECURSIVE JoinSlash(_, _)
JoinSlash(comps, i) ==
    IF i > Len(comps) THEN << >>
    ELSE <<Slash>> \o comps[i] \o JoinSlash(comps, i + 1)

\* os.path.normpath(p) for an absolute p with one leading slash
NormPath(p) ==
    LET comps == Components(p, 1, << >>, << >>) IN
    IF comps = << >> THEN <<Slash>> ELSE JoinSlash(comps, 1)

\* Default.GetPreprocessOutputName
GetPreprocessOutputName(outputdir, OriginOutput, sufix) ==
    NormPath(PathJoin(PathJoin(outputdir, PathTreeRoot),
                      <<".", "/">> \o OriginOutput \o sufix))

\* ExecutedCommand
ExecutedCommand(output, arguments, directory) ==
    [output |-> output, arguments |-> arguments, directory |-> directory]

\* the artifact options of opts, in the order MakeExecutedCommandForOneJob
\* tests them
Artifacts == <<"ast", "i", "ll", "bc">>
Ext(opt, job) ==
    CASE opt = "ast" -> <<".", "a", "s", "t">>
      [] opt = "i"   -> IF job.compiler = S_clang THEN <<".", "i">>
                        ELSE <<".", "i", "i">>
      [] opt = "ll"  -> <<".", "l", "l">>
      [] opt = "bc"  -> <<".", "b", "c">>
S_emit_llvm == <<"-", "e", "m", "i", "t", "-", "l", "l", "v", "m">>
S_Xclang == <<"-", "X", "c", "l", "a", "n", "g">>
S_optnone ==
    <<"-", "d", "i", "s", "a", "b", "l", "e", "-", "O", "0", "-", "o", "p",
      "t", "n", "o", "n", "e">>
AppendArgs(opt) ==
    CASE opt = "ast" -> << <<"-", "e", "m", "i", "t", "-", "a", "s", "t">> >>
      [] opt = "i"   -> << T_E >>
      [] opt = "ll"  -> << S_emit_llvm, <<"-", "S">>, S_Xclang, S_optnone >>
      [] opt = "bc"  -> << S_emit_llvm, S_Xclang, S_optnone >>

\* MakeExecutedCommand(ext, appendargs) of MakeExecutedCommandForOneJob:
\* args[job.oindex + 1] = out, 0-based
MakeExecutedCommand(job, opt) ==
    LET out  == GetPreprocessOutputName(OutputDir, job.output, Ext(opt, job))
        args == <<job.compiler>> \o job.arguments \o AppendArgs(opt)
    IN ExecutedCommand(out, [args EXCEPT ![job.oindex + 2] = out],
                       job.directory)

\* MakeExecutedCommandForOneJob(job) with opts.cp unset: one job per
\* artifact option of opts that is set (arts), from the k-th option on
RECURSIVE MakeExecutedCommandForOneJob(_, _, _, _)
MakeExecutedCommandForOneJob(job, arts, k, jl) ==
    IF k > Len(Artifacts) THEN jl
    ELSE MakeExecutedCommandForOneJob(job, arts, k + 1,
            IF Artifacts[k] \in arts
            THEN Append(jl, MakeExecutedCommand(job, Artifacts[k])) ELSE jl)

\* MakePreprocessJob: "for originOutput in cdb" from the c-th key on
RECURSIVE MakePreprocessJob(_, _, _, _)
MakePreprocessJob(db, arts, c, jl) ==
    IF c > Len(db) THEN jl
    ELSE MakePreprocessJob(db, arts, c + 1,
            MakeExecutedCommandForOneJob(db[c].v, arts, 1, jl))

\* the argument lists of the entries for source f and output o
EntryArguments(f, o) ==
    { <<S_clang, T_c, f, T_o, o>>,
      <<S_clang, f, T_o, o>>,
      <<S_clang, T_o, o, f>>,
      <<S_clang, T_c, T_o, o, f>>,
      <<S_clang, T_cfile, T_bfile, T_o, o>>,
      <<S_clang, T_c, T_o, o, T_cfile, T_bfile>>,
      <<S_clangxx, <<"-", "O", "2">>, T_c, f, T_o, o>>,
      <<S_clang, T_c, f, T_o \o o>>,
      <<S_clang, T_c, f>>,
      <<S_clang, T_E, f, T_o, o>>,
      <<S_ld, T_o, o, f>> }

\* the entries a persisted compilation database is drawn from
EntryMenu ==
    UNION { { Entry(P_dir, f, args) : args \in EntryArguments(f, o) } :
              f \in {T_cfile, T_bfile}, o \in {T_aobj, T_exe} }

JobInit ==
    /\ CDList \in UNION { [1..n -> EntryMenu] : n \in 0..MaxEntries }
    /\ artifact \in SUBSET Range(Artifacts)
    /\ cdb = << >>
    /\ jobList = << >>
    /\ jpc = "start"
    /\ jerr = "none"
    /\ ParseIdle
    /\ BuildIdle
    /\ DeductIdle
    /\ PoolIdle
    /\ StartIdle

\* what ParseCDList leaves behind
ParsedCD(st) ==
    /\ cdb' = st.cdret
    /\ jerr' = st.err
    /\ jpc' = IF st.err = "none" THEN "parsed" ELSE "raised"

\* lines 881-897: ParseCDList(CDList)
DoParseCDList ==
    /\ jpc = "start"
    /\ ParsedCD(ParseCDList(CDList))
    /\ UNCHANGED <<CDList, artifact, jobList, parseVars, buildVars, deductVars,
                   poolVars, startVars>>

\* lines 358-428: PreprocessProject up to MakePreprocessJob()
DoMakePreprocessJob ==
    /\ jpc = "parsed"
    /\ jobList' = MakePreprocessJob(cdb, artifact, 1, << >>)
    /\ jpc' = "made"
    /\ UNCHANGED <<CDList, artifact, cdb, jerr, parseVars, buildVars,
                   deductVars, poolVars, startVars>>

JobNext == DoParseCDList \/ DoMakePreprocessJob
SpecJobs == JobInit /\ [][JobNext]_vars

-----------------------------------------------------------------------------
(* Properties of the job run.                                               *)

\* the outputs the entries of CDList name, joined with their directory
OutputsOf(entry) ==
    { PathJoin(entry.directory, entry.arguments[k + 1]) :
        k \in { j \in 1..(Len(entry.arguments) - 1) :
                  entry.arguments[j] = T_o } }
OriginalOutputs == UNION { OutputsOf(CDList[i]) : i \in 1..Len(CDList) }

\* C19: every artifact job built from a persisted entry holds -o, holds its
\* destination right after -o, and no longer holds the entry's original
\* output
C19_DestinationAfterO ==
    jpc = "made" =>
        \A j \in 1..Len(jobList) :
            LET args == jobList[j].arguments IN
            /\ InList(T_o, args)
            /\ \E k \in 1..(Len(args) - 1) :
                  args[k] = T_o /\ args[k + 1] = jobList[j].output
            /\ \A o \in OriginalOutputs : ~InList(o, args)

-----------------------------------------------------------------------------
(* The job execution loop of PreprocessProject and RunCommand: the pool run. *)
(* An executor is the main thread (opts.jobs == 1) or a worker process of    *)
(* multiprocessing.Pool; each step below is one system call or one library   *)
(* call of the code, so that the executors interleave between them.         *)

\* the most RunCommand jobs of a job list
MaxJobs == 2
\* the largest opts.jobs
MaxWorkers == 2

\* a directory below opts.output is the sequence of its components; the
\* empty sequence is opts.output itself, which ParseArguments created
OutputRoot == << >>
Parent(d) == Head2(d, Len(d) - 1)
\* os.path.dirname(command.output) of the jobs
RunDirs == { <<PathTreeRoot, <<"p">>>>, <<PathTreeRoot, <<"q">>>> }

\* what popen and wait do for a job: the process runs and exits with zero,
\* runs and exits with non-zero, or cannot be launched (popen raises OSError)
Outcomes == {"zero", "nonzero", "OSError"}

\* the tuples of jobList: (RunCommand, ExecutedCommand, verbose) and the
\* closing (TargetJob, opts, cdb)
RunCommandJob(d, o) == [func |-> "RunCommand", dir |-> d, outcome |-> o]
TargetJobEntry == [func |-> "TargetJob", dir |-> OutputRoot, outcome |-> "zero"]

\* Pool._map_async: chunksize, extra = divmod(len(iterable), len(pool) * 4)
ChunkSize(n, workers) ==
    IF n % (workers * 4) # 0 THEN n \div (workers * 4) + 1
    ELSE n \div (workers * 4)

\* Pool._get_tasks: the job indices from i on, cut into chunks of size
RECURSIVE GetTasks(_, _, _)
GetTasks(n, size, i) ==
    IF i > n THEN << >>
    ELSE LET last == IF i + size - 1 > n THEN n ELSE i + size - 1 IN
         << [k \in 1..(last - i + 1) |-> i + k - 1] >> \o GetTasks(n, size, last + 1)

\* the chunks the loop hands out: the whole list to the main thread, or the
\* batches of starmap
Batches(n, workers) ==
    IF workers = 1 THEN << [k \in 1..n |-> k] >>
    ELSE GetTasks(n, ChunkSize(n, workers), 1)

PoolInit ==
    /\ \E n \in 0..MaxJobs :
         \E l \in [1..n -> { RunCommandJob(d, o) : d \in RunDirs, o \in Outcomes }] :
            tasks = l \o <<TargetJobEntry>>
    /\ jobs \in 1..MaxWorkers
    /\ taskqueue = << >>
    \* the executors above opts.jobs do not exist: they never take a step
    /\ wchunk = [w \in 1..MaxWorkers |-> << >>]
    /\ wpc = [w \in 1..MaxWorkers |-> "idle"]
    /\ wstack = [w \in 1..MaxWorkers |-> << >>]
    /\ dirs = {}
    /\ status = [j \in 1..Len(tasks) |-> "pending"]
    /\ caught = {}
    /\ xpc = "start"
    /\ xerr = "none"
    /\ ParseIdle
    /\ BuildIdle
    /\ DeductIdle
    /\ JobIdle
    /\ StartIdle

otherThanPool == <<parseVars, buildVars, deductVars, jobVars, startVars>>

\* lines 457-462: the loop is entered, or the pool is made and starmap cuts
\* the list into batches
StartJobs ==
    /\ xpc = "start"
    /\ taskqueue' = Batches(Len(tasks), jobs)
    /\ xpc' = "running"
    /\ UNCHANGED <<tasks, jobs, wchunk, wpc, wstack, dirs, status, xerr,
                   caught, otherThanPool>>

\* an idle executor takes the next batch
TakeBatch(w) ==
    /\ xpc = "running"
    /\ wpc[w] = "idle"
    /\ taskqueue # << >>
    /\ wchunk' = [wchunk EXCEPT ![w] = Head(taskqueue)]
    /\ taskqueue' = Tail(taskqueue)
    /\ wpc' = [wpc EXCEPT ![w] = "call"]
    /\ UNCHANGED <<tasks, jobs, wstack, dirs, status, xpc, xerr, caught, otherThanPool>>

\* the job an executor is at
Current(w) == Head(wchunk[w])

\* the executor goes on to the next job of its batch
NextOfBatch(w) ==
    /\ wchunk' = [wchunk EXCEPT ![w] = Tail(@)]
    /\ wpc' = [wpc EXCEPT ![w] = IF Tail(wchunk[w]) = << >> THEN "idle"
                                 ELSE "call"]

\* line 349: threadjob(func, *args); a TargetJob entry is one step here
Call(w) ==
    /\ wpc[w] = "call"
    /\ IF tasks[Current(w)].func = "TargetJob"
       THEN /\ status' = [status EXCEPT ![Current(w)] = "finished"]
            /\ NextOfBatch(w)
       ELSE /\ status' = [status EXCEPT ![Current(w)] = "running"]
            /\ wpc' = [wpc EXCEPT ![w] = "exists"]
            /\ UNCHANGED wchunk
    /\ UNCHANGED <<tasks, jobs, taskqueue, wstack, dirs, xpc, xerr,
                   caught, otherThanPool>>

\* line 266: while not os.path.exists(outputDir)
TestExists(w) ==
    /\ wpc[w] = "exists"
    /\ IF tasks[Current(w)].dir \in dirs \cup {OutputRoot}
       THEN /\ wpc' = [wpc EXCEPT ![w] = "popen"]
            /\ UNCHANGED wstack
       ELSE /\ wpc' = [wpc EXCEPT ![w] = "makedirs"]
            /\ wstack' = [wstack EXCEPT ![w] = <<tasks[Current(w)].dir>>]
    /\ UNCHANGED <<tasks, jobs, taskqueue, wchunk, dirs, status, xpc, xerr,
                   caught, otherThanPool>>

\* line 268, os.makedirs(name): "if head and tail and not path.exists(head)"
\* calls makedirs(head) first
MakedirsHead(w) ==
    /\ wpc[w] = "makedirs"
    /\ LET name == wstack[w][Len(wstack[w])] IN
       IF Parent(name) \notin dirs \cup {OutputRoot}
       THEN /\ wstack' = [wstack EXCEPT ![w] = Append(@, Parent(name))]
            /\ UNCHANGED wpc
       ELSE /\ wpc' = [wpc EXCEPT ![w] = "mkdir"]
            /\ UNCHANGED wstack
    /\ UNCHANGED <<tasks, jobs, taskqueue, wchunk, dirs, status, xpc, xerr,
                   caught, otherThanPool>>

\* the except clause that FileExistsError reaches is left without the job
\* being resumed
AfterFileExists_Escapes(stack) == "escaped"

\* where FileExistsError from mkdir is caught: in the makedirs that called
\* makedirs(head) (pass, then its own mkdir), or at lines 269-270 (pass, then the
\* loop test again)
AfterFileExists(stack) == IF Len(stack) > 1 THEN "mkdir" ELSE "exists"

\* where a makedirs that made its directory returns to
AfterCreated(stack) == IF Len(stack) > 1 THEN "mkdir" ELSE "exists"

\* line 268, os.makedirs(name): mkdir(name, mode)
Mkdir(w) ==
    /\ wpc[w] = "mkdir"
    /\ LET name == wstack[w][Len(wstack[w])] IN
       IF name \in dirs
       THEN /\ wpc' = [wpc EXCEPT ![w] = AfterFileExists(wstack[w])]
            /\ UNCHANGED dirs
       ELSE /\ wpc' = [wpc EXCEPT ![w] = AfterCreated(wstack[w])]
            /\ dirs' = dirs \cup {name}
    /\ caught' = IF wstack[w][Len(wstack[w])] \in dirs /\ Len(wstack[w]) = 1
                 THEN caught \cup {Current(w)} ELSE caught
    /\ wstack' = [wstack EXCEPT ![w] = Head2(@, Len(@) - 1)]
    /\ UNCHANGED <<tasks, jobs, taskqueue, wchunk, status, xpc, xerr,
                   otherThanPool>>

\* line 272: popen(arguments, cwd=command.directory).  OSError leaves
\* RunCommand and threadjob: in the main thread it leaves the for loop, in a
\* worker it ends the batch (mapstar) and is kept for starmap to raise
Popen(w) ==
    /\ wpc[w] = "popen"
    /\ IF tasks[Current(w)].outcome = "OSError"
       THEN /\ status' = [status EXCEPT ![Current(w)] = "raised"]
            /\ wchunk' = [wchunk EXCEPT ![w] = << >>]
            /\ wpc' = [wpc EXCEPT ![w] = "idle"]
            /\ xerr' = "OSError"
            /\ xpc' = IF jobs = 1 THEN "raised" ELSE xpc
       ELSE /\ status' = [status EXCEPT ![Current(w)] = "launched"]
            /\ wpc' = [wpc EXCEPT ![w] = "wait"]
            /\ UNCHANGED <<wchunk, xerr, xpc>>
    /\ UNCHANGED <<tasks, jobs, taskqueue, wstack, dirs, caught, otherThanPool>>

\* line 273: process.wait(); the exit status is dropped
Wait(w) ==
    /\ wpc[w] = "wait"
    /\ status' = [status EXCEPT ![Current(w)] = "finished"]
    /\ NextOfBatch(w)
    /\ UNCHANGED <<tasks, jobs, taskqueue, wstack, dirs, xpc, xerr,
                   caught, otherThanPool>>

\* the for loop is through, or starmap returns or raises once every batch
\* is done
EndJobs ==
    /\ xpc = "running"
    /\ taskqueue = << >>
    /\ \A w \in 1..jobs : wpc[w] = "idle"
    /\ xpc' = IF xerr = "none" THEN "done" ELSE "raised"
    /\ UNCHANGED <<tasks, jobs, taskqueue, wchunk, wpc, wstack, dirs, status,
                   xerr, caught, otherThanPool>>

\* one step of executor w
Executor(w) ==
    /\ w \in 1..jobs
    /\ \/ TakeBatch(w)
       \/ Call(w)
       \/ TestExists(w)
       \/ MakedirsHead(w)
       \/ Mkdir(w)
       \/ Popen(w)
       \/ Wait(w)

PoolNext == StartJobs \/ EndJobs \/ \E w \in 1..MaxWorkers : Executor(w)
SpecPool == PoolInit /\ [][PoolNext]_vars

\* the operating system schedules every worker process again and again, and
\* the main thread goes on
SpecPoolFair ==
    /\ SpecPool
    /\ \A w \in 1..MaxWorkers : WF_vars(Executor(w))
    /\ WF_vars(StartJobs)
    /\ WF_vars(EndJobs)

-----------------------------------------------------------------------------
(* Properties of the pool run.                                              *)

\* C11: when the execution loop is over, with one executor or with a pool,
\* every job of the job list has been executed, whichever jobs failed
C11_SiblingsStillRun ==
    xpc \in {"done", "raised"} =>
        \A j \in 1..Len(tasks) : status[j] # "pending"


\* the positions of RunCommand's directory loop (lines 266-270)
DirectoryLoop == {"exists", "makedirs", "mkdir"}

\* C13: with a pool, a job is at its subprocess launch only with its
\* destination directory existing, FileExistsError never takes a job out of
\* RunCommand, and every executor in the directory loop gets to the launch
C13_DirectoryRace ==
    /\ [](jobs > 1 =>
            \A w \in 1..jobs :
                /\ wpc[w] # "escaped"
                /\ wpc[w] = "popen" => tasks[Current(w)].dir \in dirs)
    /\ \A w \in 1..MaxWorkers :
          (jobs > 1 /\ w <= jobs /\ wpc[w] \in DirectoryLoop)
              ~> (wpc[w] = "popen")

\* a job that lost the race for its directory (makedirs raised
\* FileExistsError after the existence test had failed) and was launched
C13_Witness ==
    /\ jobs > 1
    /\ \E j \in caught : status[j] \in {"launched", "finished"}

-----------------------------------------------------------------------------
(* The tail of ParseArguments (lines 211-247) and the call of main that     *)
(* follows it: the start run.                                               *)

\* the store_true options the tail reads, after the --ctu alias is resolved
OptionNames == {"build", "ast", "i", "ll", "bc", "fm", "ls", "cp"}
\* has_output (lines 212-213)
has_output == OptionNames
\* the executables checkCommandExecutable is asked about
ToolNames == {"cc", "cxx", "cfm"}

StartInit ==
    /\ opts \in SUBSET OptionNames
    /\ tools \in SUBSET ToolNames
    /\ outputDir \in {"present", "absent"}
    /\ stderr = << >>
    /\ exitStatus = NoIndex
    /\ spc = "start"
    /\ ParseIdle
    /\ BuildIdle
    /\ DeductIdle
    /\ JobIdle
    /\ PoolIdle

otherThanStart == <<parseVars, buildVars, deductVars, jobVars, poolVars>>

\* lines 214-215: os.makedirs(opts.output) when it is missing and any output
\* option is set
MakeOutputDir ==
    /\ spc = "start"
    /\ outputDir' = IF outputDir = "absent" /\ opts \cap has_output # {}
                    THEN "created" ELSE outputDir
    /\ spc' = "cfm"
    /\ UNCHANGED <<opts, tools, stderr, exitStatus, otherThanStart>>

\* lines 228-239, checkCommandExecutable(cmd, opt), called when required:
\* popen raising OSError prints the diagnostic (tool and option) and calls
\* exit(err.errno), here ENOENT
checkCommandExecutable(tool, required, next) ==
    IF required /\ tool \notin tools
    THEN /\ stderr' = Append(stderr, [tool |-> tool, option |-> "--" \o tool])
         /\ exitStatus' = 2
         /\ spc' = "exited"
    ELSE /\ spc' = next
         /\ UNCHANGED <<stderr, exitStatus>>

\* the tools a run with these options needs
Required(tool) ==
    IF tool = "cfm" THEN "fm" \in opts
    ELSE opts \cap {"ast", "i", "ll", "bc"} # {}

\* lines 241-242
CheckCfm ==
    /\ spc = "cfm"
    /\ checkCommandExecutable("cfm", Required("cfm"), "cc")
    /\ UNCHANGED <<opts, tools, outputDir, otherThanStart>>

\* lines 243-244
CheckCc ==
    /\ spc = "cc"
    /\ checkCommandExecutable("cc", Required("cc"), "cxx")
    /\ UNCHANGED <<opts, tools, outputDir, otherThanStart>>

\* lines 243, 245; "return opts" follows
CheckCxx ==
    /\ spc = "cxx"
    /\ checkCommandExecutable("cxx", Required("cxx"), "returned")
    /\ UNCHANGED <<opts, tools, outputDir, otherThanStart>>

\* lines 926-947: main goes on to the databases and to PreprocessProject,
\* where the jobs are scheduled
Proceed ==
    /\ spc = "returned"
    /\ spc' = "scheduling"
    /\ UNCHANGED <<opts, tools, outputDir, stderr, exitStatus, otherThanStart>>

StartNext == MakeOutputDir \/ CheckCfm \/ CheckCc \/ CheckCxx \/ Proceed
SpecStart == StartInit /\ [][StartNext]_vars

-----------------------------------------------------------------------------
(* Properties of the start run.                                             *)

\* C12: a run that needs a tool it cannot execute never gets to scheduling,
\* and when it exits it has printed the diagnostic, its status is not zero
\* and the output directory has not been created
C12_FailFast ==
    /\ spc \in {"returned", "scheduling"} =>
          \A tool \in ToolNames : Required(tool) => tool \in tools
    /\ spc = "exited" =>
          /\ Len(stderr) = 1
          /\ exitStatus > 0
          /\ outputDir # "created"

=============================================================================
